---- MODULE Spec2Model ----
(***************************************************************************)
(* Model of realsense2_camera/src/base_realsense_node.cpp:                 *)
(*   - SyncedImuPublisher (the pause/resume gate of the united IMU topic), *)
(*   - the time base (_is_initialized_time_base, setBaseTime),             *)
(*   - the callbacks frame_callback, imu_callback_sync, imu_callback and   *)
(*     pose_callback, each run by its own thread,                          *)
(*   - the two IMU synchronisation policies FillImuData_Copy and           *)
(*     FillImuData_LinearInterpolation.                                    *)
(* Doubles are modelled by exact rationals <<num, den>>; a non-finite      *)
(* double (a division by zero) is the single value NonFinite.              *)
(***************************************************************************)
EXTENDS Integers, Sequences, FiniteSets, TLC

(***************************************************************************)
(* Bounds of the model.                                                    *)
(***************************************************************************)
MaxGateCalls == 5      \* callback invocations in one behaviour of SpecGate
MaxTimeCalls == 2      \* callback invocations in one behaviour of SpecTime
MaxSamples == 4        \* inertial frames in one behaviour of SpecImu
MaxNow == 1            \* largest value of the host clock
MaxDev == 1            \* largest device timestamp (ms) of a frame in SpecTime
MaxImuDev == 2         \* largest device timestamp (ms) of a frame in SpecImu
waiting_list_size == 2 \* capacity of the gate's pending queue
MaxFrames == 3         \* frames of a frameset in SpecPublish

FrameThreads == {"f1", "f2"}
ImuThreads == {"i1"}
PoseThreads == {"p1"}
Threads == FrameThreads \cup ImuThreads \cup PoseThreads

MsToNs == 1000000

GYRO == "GYRO"
ACCEL == "ACCEL"
NONE == "NONE"
COPY == "COPY"
LINEAR_INTERPOLATION == "LINEAR_INTERPOLATION"

VARIABLES
    pause_mode,                \* SyncedImuPublisher::_pause_mode
    pending_messages,          \* SyncedImuPublisher::_pending_messages
    is_enabled,                \* SyncedImuPublisher::_is_enabled
    published,                 \* messages delivered by _publisher->publish, in order
    num_subscribers,           \* subscription count of the united IMU topic
    is_initialized_time_base,  \* BaseRealSenseNode::_is_initialized_time_base
    ros_time_base,             \* BaseRealSenseNode::_ros_time_base (ns)
    camera_time_base,          \* BaseRealSenseNode::_camera_time_base (ms)
    clock,                     \* last value returned by _node.now()
    m_mutex,                   \* the static mutex of imu_callback_sync
    sync_method,               \* the session's imu_sync_method
    accel_data,                \* static _accel_data of FillImuData_Copy
    imu_history,               \* static _imu_history of FillImuData_LinearInterpolation
    pc,                        \* position of each thread in its callback
    frame,                     \* the frame each thread's callback was called with
    imu_msgs,                  \* the local deque imu_msgs of imu_callback_sync
    t_local,                   \* the local t (the stamp) of each thread's callback
    ncalls,                    \* callback invocations so far (bounds the run)
    device_time,               \* device time of the last frame of each stream
    hist,                      \* history of the run, read by the properties only
    filters,                   \* BaseRealSenseNode::_filters: name and _is_enabled of each
    frameset,                  \* the local frameset of frame_callback
    filter_it,                 \* position of the filter loop of frame_callback in _filters
    align_depth,               \* BaseRealSenseNode::_align_depth
    t_frameset,                \* the local t of the frameset branch of frame_callback
    points_in_set,             \* the local points_in_set of frame_callback
    frames_to_publish,         \* the local frames_to_publish of frame_callback
    is_in_set,                 \* the local is_in_set of frame_callback
    is_depth_arrived,          \* the local is_depth_arrived of frame_callback
    it,                        \* the iterator of the loop the frameset branch is in
    pub_pc,                    \* position of the frameset branch of frame_callback
    subs_read,                 \* subscription counts read at lines 187-188
    last_call,                 \* arguments and reads of the last publishFrame call
    sent,                      \* messages published on the image and info sinks, in order
    notifications,             \* device notifications handled so far, with what was done
    hardware_resets,           \* calls of _dev.hardware_reset() so far
    available_profiles,        \* the local available_profiles of SetBaseStream
    base_stream,               \* the local iterator base_stream of SetBaseStream
    base_profile,              \* BaseRealSenseNode::_base_profile
    base_pc,                   \* position of SetBaseStream
    end_reads,                 \* reads of *base_stream made at base_stream_priority.end()
    static_tf_msgs,            \* BaseRealSenseNode::_static_tf_msgs
    publish_tf_mutex,          \* holder of BaseRealSenseNode::_publish_tf_mutex
    tf_builder,                \* position of publishStaticTransforms
    tf_t,                      \* position of the thread _tf_t in publishDynamicTransforms
    tf_sent,                   \* the transforms last handed to a broadcaster
    depth_frame,               \* the pixels of the depth frame clip_depth works on
    raw_frame,                 \* the pixels of that frame before clip_depth
    clipping_distance,         \* BaseRealSenseNode::_clipping_distance
    depth_scale_meters,        \* BaseRealSenseNode::_depth_scale_meters
    clip_pc,                   \* position of clip_depth
    frame_data,                \* the frame handed to frame_callback, with its pixels
    camera_info,               \* BaseRealSenseNode::_camera_info
    calib,                     \* position and locals of updateProfilesStreamCalibData
    is_running,                \* BaseRealSenseNode::_is_running
    rclcpp_ok,                 \* what rclcpp::ok() returns
    destructor                 \* position of ~BaseRealSenseNode

\* the state of the callbacks, of the gate and of the time base
nodeVars == <<pause_mode, pending_messages, is_enabled, published, num_subscribers,
              is_initialized_time_base, ros_time_base, camera_time_base, clock,
              m_mutex, sync_method, accel_data, imu_history, pc, frame, imu_msgs,
              t_local, ncalls, device_time, hist>>

\* the state of the filter loop
filterVars == <<filters, frameset, filter_it>>

\* the state of the frameset branch after the filters
publishVars == <<align_depth, t_frameset, points_in_set, frames_to_publish, is_in_set,
                 is_depth_arrived, it, pub_pc, subs_read, last_call, sent>>

\* the state of the notification callback, of SetBaseStream, of the static
\* transforms and of clip_depth
notifyVars == <<notifications, hardware_resets>>
baseStreamVars == <<available_profiles, base_stream, base_profile, base_pc, end_reads>>
tfVars == <<static_tf_msgs, publish_tf_mutex, tf_builder, tf_t, tf_sent>>
clipVars == <<depth_frame, raw_frame, clipping_distance, depth_scale_meters, clip_pc,
              frame_data>>
calibVars == <<camera_info, calib>>
lifeVars == <<is_running, rclcpp_ok, destructor>>

\* what the callbacks modelled step by step above leave alone
extVars == <<filterVars, publishVars, notifyVars, baseStreamVars, tfVars, clipVars,
             calibVars, lifeVars>>

\* what each of the other procedures leaves alone
notFilterVars == <<nodeVars, publishVars, notifyVars, baseStreamVars, tfVars, clipVars,
                 calibVars, lifeVars>>
notPublishVars == <<nodeVars, filters, filter_it, notifyVars, baseStreamVars, tfVars,
                    clipVars, calibVars, lifeVars>>
notNotifyVars == <<nodeVars, filterVars, publishVars, baseStreamVars, tfVars, clipVars,
                 calibVars, lifeVars>>
notBaseStreamVars == <<nodeVars, filterVars, publishVars, notifyVars, tfVars, clipVars,
                 calibVars, lifeVars>>
notTfVars == <<nodeVars, filterVars, publishVars, notifyVars, baseStreamVars, clipVars,
                 calibVars, lifeVars>>
notClipVars == <<nodeVars, filterVars, publishVars, notifyVars, baseStreamVars, tfVars,
                 calibVars, lifeVars>>
notFilterVars_but_clip == <<nodeVars, publishVars, notifyVars, baseStreamVars, tfVars,
                            calibVars, lifeVars>>
notCalibVars == <<nodeVars, filterVars, publishVars, notifyVars, baseStreamVars, tfVars,
                  clipVars, lifeVars>>
notLifeTfVars == <<nodeVars, filterVars, publishVars, notifyVars, baseStreamVars, clipVars,
                 calibVars>>

vars == <<nodeVars, extVars>>

gateVars == <<pause_mode, pending_messages, published>>
baseVars == <<is_initialized_time_base, ros_time_base, camera_time_base>>
syncVars == <<accel_data, imu_history>>

(***************************************************************************)
(* Doubles as exact rationals.                                             *)
(***************************************************************************)
NonFinite == <<0, 0>>

Abs(n) == IF n < 0 THEN -n ELSE n

RECURSIVE GCD(_, _)
GCD(a, b) == IF b = 0 THEN a ELSE GCD(b, a % b)

Rat(n, d) ==
    IF d = 0 THEN NonFinite
    ELSE LET g == GCD(Abs(n), Abs(d))
             s == IF d < 0 THEN -1 ELSE 1
         IN  <<(s * n) \div g, (s * d) \div g>>

RInt(n) == <<n, 1>>
IsFinite(x) == x[2] # 0
RAdd(x, y) == IF IsFinite(x) /\ IsFinite(y)
              THEN Rat(x[1] * y[2] + y[1] * x[2], x[2] * y[2]) ELSE NonFinite
RSub(x, y) == IF IsFinite(x) /\ IsFinite(y)
              THEN Rat(x[1] * y[2] - y[1] * x[2], x[2] * y[2]) ELSE NonFinite
RMul(x, y) == IF IsFinite(x) /\ IsFinite(y)
              THEN Rat(x[1] * y[1], x[2] * y[2]) ELSE NonFinite
RDiv(x, y) == IF IsFinite(x) /\ IsFinite(y)
              THEN Rat(x[1] * y[2], x[2] * y[1]) ELSE NonFinite

\* Eigen::Vector3d built from a float3 reading
Vector3d(v) == <<RInt(v[1]), RInt(v[2]), RInt(v[3])>>

(***************************************************************************)
(* CimuData and the united message.                                        *)
(***************************************************************************)
\* src is not a field of the class: it records the frame the sample was made
\* from (device time, whether the anchor was complete when it was read, and
\* the rank seq of the sample among those handed to the policies).
\* In the same way a published message carries id, the rank of its Publish
\* call among those that returned, and queued, whether it went through
\* _pending_messages.
CimuData(type, data, time, src) ==
    [m_type |-> type, m_data |-> data, m_time_ns |-> time, src |-> src]

NoSrc == [d |-> -1, anch |-> FALSE, seq |-> 0]

\* the sentinel "no sample yet": time -1
UnsetImuData == CimuData(ACCEL, Vector3d(<<0, 0, 0>>), -1, NoSrc)

\* CimuData::is_set: the sample is not the unset sentinel
is_set(d) == d.m_time_ns >= 0

CreateUnitedMessage(accel, gyro) ==
    [stamp |-> gyro.m_time_ns,
     angular_velocity |-> gyro.m_data,
     linear_acceleration |-> accel.m_data,
     src |-> gyro.src]

lerp(a, b, t) == RAdd(RMul(a, RSub(RInt(1), t)), RMul(b, t))

lerp3(a, b, t) == <<lerp(a[1], b[1], t), lerp(a[2], b[2], t), lerp(a[3], b[3], t)>>

(***************************************************************************)
(* The synchronisation policies.  Each returns the new static state and    *)
(* the new contents of imu_msgs.                                           *)
(***************************************************************************)
\* the copy policy without the test of lines 362-363
FillImuData_Copy_unchecked(imu_data, accel, msgs) ==
    IF imu_data.m_type = ACCEL
    THEN [accel_data |-> imu_data, imu_msgs |-> msgs]
    ELSE [accel_data |-> accel,
          imu_msgs |-> Append(msgs, CreateUnitedMessage(accel, imu_data))]

FillImuData_Copy(imu_data, accel, msgs) ==
    IF imu_data.m_type = ACCEL
    THEN [accel_data |-> imu_data, imu_msgs |-> msgs]
    ELSE IF ~is_set(accel)
    THEN [accel_data |-> accel, imu_msgs |-> msgs]
    ELSE [accel_data |-> accel,
          imu_msgs |-> Append(msgs, CreateUnitedMessage(accel, imu_data))]

\* the inner loop of lines 333-340: one united message per collected gyro
InterpolateGyros(gyros, accel0, accel1) ==
    LET dt == accel1.m_time_ns - accel0.m_time_ns
        msg(g) ==
            LET alpha == Rat(g.m_time_ns - accel0.m_time_ns, dt)
                crnt_accel == CimuData(ACCEL, lerp3(accel0.m_data, accel1.m_data, alpha),
                                       g.m_time_ns, g.src)
            IN  CreateUnitedMessage(crnt_accel, g)
    IN  [i \in 1..Len(gyros) |-> msg(gyros[i])]

\* the loop of lines 320-347 over the history h
RECURSIVE DrainHistory(_, _, _, _, _)
DrainHistory(h, accel0, gyros, msgs, crnt) ==
    IF h = <<>> THEN [imu_msgs |-> msgs, crnt_imu |-> crnt]
    ELSE LET c == Head(h) IN
         IF ~is_set(accel0) /\ c.m_type = ACCEL
         THEN DrainHistory(Tail(h), c, gyros, msgs, c)
         ELSE IF is_set(accel0) /\ c.m_type = ACCEL
         THEN DrainHistory(Tail(h), c, <<>>,
                           msgs \o InterpolateGyros(gyros, accel0, c), c)
         ELSE IF is_set(accel0) /\ c.m_time_ns >= accel0.m_time_ns /\ c.m_type = GYRO
         THEN DrainHistory(Tail(h), accel0, Append(gyros, c), msgs, c)
         ELSE DrainHistory(Tail(h), accel0, gyros, msgs, c)

\* drains on gyro samples instead of accelerometer samples
returns_before_drain_on_accel(imu_data, h) == imu_data.m_type # GYRO \/ Len(h) < 3

\* the test of line 314
returns_before_drain(imu_data, h) == imu_data.m_type # ACCEL \/ Len(h) < 3

\* the interpolation policy that leaves the drained samples in _imu_history
FillImuData_LinearInterpolation_keep(imu_data, history, msgs) ==
    LET h == Append(history, imu_data) IN
    IF returns_before_drain(imu_data, h)
    THEN [imu_history |-> h, imu_msgs |-> <<>>]
    ELSE LET r == DrainHistory(h, UnsetImuData, <<>>, <<>>, UnsetImuData)
         IN  [imu_history |-> h, imu_msgs |-> r.imu_msgs]

FillImuData_LinearInterpolation(imu_data, history, msgs) ==
    LET h == Append(history, imu_data) IN
    IF returns_before_drain(imu_data, h)
    THEN [imu_history |-> h, imu_msgs |-> <<>>]
    ELSE LET r == DrainHistory(h, UnsetImuData, <<>>, <<>>, UnsetImuData)
         IN  [imu_history |-> <<r.crnt_imu>>, imu_msgs |-> r.imu_msgs]

(***************************************************************************)
(* SyncedImuPublisher.  Each method runs under _mutex, so it is one step.  *)
(***************************************************************************)
\* the pending queue emptied from its back
PublishPendingMessages_lifo ==
    /\ published' = published \o [i \in 1..Len(pending_messages) |->
                                    pending_messages[Len(pending_messages) + 1 - i]]
    /\ pending_messages' = <<>>

PublishPendingMessages ==
    /\ published' = published \o pending_messages
    /\ pending_messages' = <<>>

\* the capacity test off by one
PublishThrows_late == pause_mode /\ Len(pending_messages) > waiting_list_size

\* Publish throws instead of returning
PublishThrows == pause_mode /\ Len(pending_messages) >= waiting_list_size

\* a call of Publish that returns
Publish(imu_msg) ==
    /\ ~PublishThrows
    /\ IF pause_mode
       THEN /\ pending_messages' = Append(pending_messages, [imu_msg EXCEPT !.queued = TRUE])
            /\ published' = published
       ELSE /\ published' = Append(published, imu_msg)
            /\ pending_messages' = pending_messages
    /\ pause_mode' = pause_mode

Pause ==
    /\ pause_mode' = (IF is_enabled THEN TRUE ELSE pause_mode)
    /\ UNCHANGED <<pending_messages, published>>

\* Resume that leaves the pending queue as it is
Resume_without_drain ==
    /\ pause_mode' = FALSE
    /\ UNCHANGED <<pending_messages, published>>

Resume ==
    /\ PublishPendingMessages
    /\ pause_mode' = FALSE

(***************************************************************************)
(* The frames handed to the callbacks.                                     *)
(***************************************************************************)
NoFrame == [kind |-> "none", stream |-> "none", data |-> <<0, 0, 0>>, time |-> 0]

VideoFrames(times) ==
    {[kind |-> k, stream |-> "video", data |-> <<0, 0, 0>>, time |-> d] :
       k \in {"frameset", "video_frame"}, d \in times}

MotionFrames(stream, vecs, times) ==
    {[kind |-> "motion", stream |-> stream, data |-> v, time |-> d] :
       v \in vecs, d \in times}

PoseFrames(times) ==
    {[kind |-> "pose", stream |-> "POSE", data |-> <<0, 0, 0>>, time |-> d] :
       d \in times}

\* the inputs of SpecGate: every frame has the same device time
GateVideoFrames == VideoFrames({0})
GateImuFrames == MotionFrames(GYRO, {<<7, 8, 9>>}, {0})
                   \cup MotionFrames(ACCEL, {<<1, 2, 3>>}, {0})

\* the inputs of SpecTime
DevTimes == 0..MaxDev
TimeVideoFrames == VideoFrames(DevTimes)
TimeImuFrames == MotionFrames(GYRO, {<<7, 8, 9>>}, DevTimes)
                   \cup MotionFrames(ACCEL, {<<1, 2, 3>>}, DevTimes)
TimePoseFrames == PoseFrames(DevTimes)

\* the inputs of SpecImu
ImuDevTimes == 0..MaxImuDev
AccelVecs == {<<0, 0, 0>>, <<10, 10, 10>>, <<1, 2, 3>>}
GyroVecs == {<<7, 8, 9>>}
ImuFrames == MotionFrames(GYRO, GyroVecs, ImuDevTimes)
               \cup MotionFrames(ACCEL, AccelVecs, ImuDevTimes)

\* the streams: one per video or pose sensor, and the two motion streams
Streams == Threads \cup {GYRO, ACCEL}
StreamOf(self, f) == IF f.kind = "motion" THEN f.stream ELSE self

\* the frame f arrives on the callback of self: the frames of one stream
\* arrive in the order of their device times
Arrives(self, f) ==
    /\ f.time >= device_time[StreamOf(self, f)]
    /\ device_time' = [device_time EXCEPT ![StreamOf(self, f)] = f.time]
    /\ frame' = [frame EXCEPT ![self] = f]

\* the elapsed device time left in milliseconds
elapsed_camera_ms(frame_time) == frame_time - camera_time_base

\* (frame_time - _camera_time_base) * 1e6
elapsed_camera_ns(frame_time) == (frame_time - camera_time_base) * MsToNs

NoStamp == [path |-> "none", d |-> 0, t |-> 0, anch |-> FALSE]
Stamp(path, d, t) == [path |-> path, d |-> d, t |-> t, anch |-> hist.anchored]

\* the filters in the order of the push_back calls, with colorizer and
\* disparity_end exchanged
setupFilters_swapped ==
    <<"decimation", "disparity_start", "spatial", "temporal", "hole_filling",
      "colorizer", "disparity_end", "pointcloud">>

\* the names of the filters in the order setupFilters pushes them on _filters
setupFilters ==
    <<"decimation", "disparity_start", "spatial", "temporal", "hole_filling",
      "disparity_end", "colorizer", "pointcloud">>

NamedFilter(name, enabled) == [name |-> name, is_enabled |-> enabled]

\* a frameset: its frames, and the filters it went through
Frameset(frames) == [frames |-> frames, stages |-> <<>>]

\* filter->process(frameset): the result is a new frameset made from the
\* argument by that filter
process(filter, fs) == [fs EXCEPT !.stages = Append(@, filter.name)]

InitNode ==
    /\ pause_mode = FALSE
    /\ pending_messages = <<>>
    /\ is_enabled \in BOOLEAN          \* not initialised by the constructor
    /\ published = <<>>
    /\ num_subscribers \in {0, 1}
    /\ is_initialized_time_base = FALSE
    /\ ros_time_base = 0
    /\ camera_time_base \in {0, MaxDev} \* not initialised by the constructor
    /\ clock = 0
    /\ m_mutex = "free"
    /\ sync_method \in {NONE, COPY, LINEAR_INTERPOLATION}
    /\ accel_data = UnsetImuData
    /\ imu_history = <<>>
    /\ pc = [t \in Threads |-> "idle"]
    /\ frame = [t \in Threads |-> NoFrame]
    /\ imu_msgs = [t \in ImuThreads |-> <<>>]
    /\ t_local = [t \in Threads |-> NoStamp]
    /\ ncalls = 0
    /\ device_time = [k \in Streams |-> 0]
    /\ hist = [submitted |-> 0, setBaseCalls |-> 0, anchored |-> FALSE,
               resumed |-> "none", thrown |-> FALSE,
               outcome |-> [t \in FrameThreads |-> "none"],
               fed |-> 0, lastAccel |-> UnsetImuData, accelSeen |-> FALSE,
               gyros |-> <<>>]

\* no frameset is being processed, every filter is disabled
InitFilters ==
    /\ filters = [i \in 1..Len(setupFilters) |-> NamedFilter(setupFilters[i], FALSE)]
    /\ frameset = Frameset(<<>>)
    /\ filter_it = 0

NoRead == [info |-> -1, image |-> -1]
NoCall == [stream |-> <<"none", 0>>, family |-> "none", t |-> -1, info |-> -1, image |-> -1]

\* the frameset branch is not running, nothing was published
InitPublish ==
    /\ t_frameset = 0
    /\ points_in_set = FALSE
    /\ frames_to_publish = <<>>
    /\ is_in_set = <<>>
    /\ is_depth_arrived = FALSE
    /\ it = 0
    /\ pub_pc = "idle"
    /\ subs_read = NoRead
    /\ last_call = NoCall
    /\ sent = <<>>

\* no notification was received
InitNotify ==
    /\ notifications = <<>>
    /\ hardware_resets = 0

NoProfile == [sip |-> <<"none", 0>>, uid |-> 0]

\* SetBaseStream was not called
InitBaseStream ==
    /\ available_profiles = {}
    /\ base_stream = 1
    /\ base_profile = NoProfile
    /\ base_pc = "idle"
    /\ end_reads = 0

\* last, a field of tf_builder, is not a variable of the program: the last call
\* of calcAndPublishStaticTransform, with what get_extrinsics_to did in it
NoTfCall == [profile |-> [sip |-> <<"none", 0>>, is_video |-> FALSE], outcome |-> "none"]

\* publishStaticTransforms was not called
InitTf ==
    /\ static_tf_msgs = <<>>
    /\ publish_tf_mutex = "free"
    /\ tf_builder = [pc |-> "idle", todo |-> <<>>, t |-> 0, calls |-> 0,
                     publish_tf |-> TRUE, tf_publish_rate |-> 0, last |-> NoTfCall]
    /\ tf_t = [pc |-> "none", i |-> 0, n |-> 0, t |-> 0]
    /\ tf_sent = [by |-> "none", msgs |-> <<>>]

\* arrived, a field of frame_data, is not a variable of the program: the
\* member frames as they were when the callback was entered
NoFrameData == [is_frameset |-> FALSE, frames |-> <<>>, arrived |-> <<>>]

\* clip_depth was not called
InitClip ==
    /\ depth_frame = <<>>
    /\ raw_frame = <<>>
    /\ clipping_distance = RInt(0)
    /\ depth_scale_meters = Rat(1, 1000)
    /\ clip_pc = "idle"
    /\ frame_data = NoFrameData

\* the streams with a calibration record
CalibStreams == {<<"DEPTH", 0>>, <<"INFRARED", 1>>, <<"INFRARED", 2>>}

Zeros(n) == [i \in 1..n |-> 0]

\* a sensor_msgs::msg::CameraInfo as its constructor leaves it
NoCameraInfo == [k |-> Zeros(9), p |-> Zeros(12), r |-> Zeros(9)]

NoExtrinsics == [rotation |-> Zeros(9), translation |-> Zeros(3)]

\* updateProfilesStreamCalibData was not called
InitCalib ==
    /\ camera_info = [sip \in CalibStreams |-> NoCameraInfo]
    /\ calib = [pc |-> "idle", profiles |-> <<>>, i |-> 0,
                left_profile |-> <<"none", 0>>, right_profile |-> <<"none", 0>>,
                extrinsics |-> NoExtrinsics]

InitAlign == align_depth = FALSE

\* the node is alive and no shutdown was requested
InitLife ==
    /\ is_running = TRUE
    /\ rclcpp_ok = TRUE
    /\ destructor = "none"

InitExt ==
    /\ InitFilters /\ InitPublish /\ InitAlign
    /\ InitNotify /\ InitBaseStream /\ InitTf /\ InitClip
    /\ InitCalib /\ InitLife

Init == InitNode /\ InitExt

\* the callbacks at rest, for the specifications of a single procedure
InitNodeIdle ==
    /\ InitNode
    /\ is_enabled
    /\ num_subscribers = 1
    /\ camera_time_base = 0
    /\ sync_method = NONE

(***************************************************************************)
(* The time base: lines 392-395, 434-437, 477-480, 569-572 and setBaseTime. *)
(***************************************************************************)
\* a plain store in place of the compare-and-set
compare_exchange_always(self) ==
    /\ is_initialized_time_base' = TRUE
    /\ pc' = [pc EXCEPT ![self] = "setBaseTime_ros"]

\* the compare-and-set and the branch on its result
compare_exchange_strong(self) ==
    IF ~is_initialized_time_base
    THEN /\ is_initialized_time_base' = TRUE
         /\ pc' = [pc EXCEPT ![self] = "setBaseTime_ros"]
    ELSE /\ is_initialized_time_base' = is_initialized_time_base
         /\ pc' = [pc EXCEPT ![self] = "body"]

\* _ros_time_base = _node.now(); the host clock does not pass maxnow
setBaseTime_ros(self, maxnow) ==
    /\ pc[self] = "setBaseTime_ros"
    /\ \E n \in clock..maxnow :
         /\ clock' = n
         /\ ros_time_base' = n
    /\ pc' = [pc EXCEPT ![self] = "setBaseTime_cam"]
    /\ hist' = [hist EXCEPT !.setBaseCalls = @ + 1]
    /\ UNCHANGED <<gateVars, is_enabled, num_subscribers, is_initialized_time_base,
                   camera_time_base, m_mutex, sync_method, syncVars,
                   frame, imu_msgs, t_local, ncalls, device_time>>
    /\ UNCHANGED extVars

\* _camera_time_base = frame_time
setBaseTime_cam(self) ==
    /\ pc[self] = "setBaseTime_cam"
    /\ camera_time_base' = frame[self].time
    /\ pc' = [pc EXCEPT ![self] = "body"]
    /\ hist' = [hist EXCEPT !.anchored = TRUE]
    /\ UNCHANGED <<gateVars, is_enabled, num_subscribers, is_initialized_time_base,
                   ros_time_base, clock, m_mutex, sync_method, syncVars,
                   frame, imu_msgs, t_local, ncalls, device_time>>
    /\ UNCHANGED extVars

(***************************************************************************)
(* frame_callback                                                          *)
(***************************************************************************)
\* entry of the callback, _synced_imu_publisher->Pause() and the compare-and-set
frame_callback_Pause(self, frames, bound) ==
    /\ self \in FrameThreads
    /\ pc[self] = "idle"
    /\ ncalls < bound
    /\ ncalls' = ncalls + 1
    /\ \E f \in frames : Arrives(self, f)
    /\ Pause
    /\ compare_exchange_strong(self)
    /\ UNCHANGED <<is_enabled, num_subscribers, ros_time_base, camera_time_base,
                   clock, m_mutex, sync_method, syncVars, imu_msgs, t_local, hist>>
    /\ UNCHANGED extVars

\* the frameset branch without the catch of line 714: a failure leaves the
\* callback before Resume
frame_callback_frameset_uncaught(self, maxnow) ==
    /\ self \in FrameThreads
    /\ pc[self] = "body"
    /\ frame[self].kind = "frameset"
    /\ \E n \in clock..maxnow, fail \in BOOLEAN :
         /\ clock' = n
         /\ t_local' = [t_local EXCEPT ![self] = Stamp("frameset", frame[self].time, n)]
         /\ hist' = [hist EXCEPT !.outcome[self] = IF fail THEN "failed" ELSE "ok"]
         /\ pc' = [pc EXCEPT ![self] = IF fail THEN "idle" ELSE "resume"]
    /\ UNCHANGED <<gateVars, is_enabled, num_subscribers, baseVars, m_mutex,
                   sync_method, syncVars, frame, imu_msgs, ncalls, device_time>>
    /\ UNCHANGED extVars

\* the frameset branch, lines 574-688: every frame is stamped with _node.now();
\* any step may throw, and the exception is caught at line 714
frame_callback_frameset(self, maxnow) ==
    /\ self \in FrameThreads
    /\ pc[self] = "body"
    /\ frame[self].kind = "frameset"
    /\ \E n \in clock..maxnow, fail \in BOOLEAN :
         /\ clock' = n
         /\ t_local' = [t_local EXCEPT ![self] = Stamp("frameset", frame[self].time, n)]
         /\ hist' = [hist EXCEPT !.outcome[self] = IF fail THEN "failed" ELSE "ok"]
    /\ pc' = [pc EXCEPT ![self] = "resume"]
    /\ UNCHANGED <<gateVars, is_enabled, num_subscribers, baseVars, m_mutex,
                   sync_method, syncVars, frame, imu_msgs, ncalls, device_time>>
    /\ UNCHANGED extVars

\* the single video frame branch, lines 689-712
frame_callback_video_frame(self) ==
    /\ self \in FrameThreads
    /\ pc[self] = "body"
    /\ frame[self].kind = "video_frame"
    /\ LET t == ros_time_base + elapsed_camera_ns(frame[self].time) IN
       \E fail \in BOOLEAN :
         /\ t_local' = [t_local EXCEPT ![self] = Stamp("video_frame", frame[self].time, t)]
         /\ hist' = [hist EXCEPT !.outcome[self] = IF fail THEN "failed" ELSE "ok"]
    /\ pc' = [pc EXCEPT ![self] = "resume"]
    /\ UNCHANGED <<gateVars, is_enabled, num_subscribers, baseVars, clock, m_mutex,
                   sync_method, syncVars, frame, imu_msgs, ncalls, device_time>>
    /\ UNCHANGED extVars

\* _synced_imu_publisher->Resume() and the return of the callback
frame_callback_Resume(self) ==
    /\ self \in FrameThreads
    /\ pc[self] = "resume"
    /\ Resume
    /\ hist' = [hist EXCEPT !.resumed = hist.outcome[self],
                             !.outcome[self] = "none"]
    /\ pc' = [pc EXCEPT ![self] = "idle"]
    /\ frame' = [frame EXCEPT ![self] = NoFrame]
    /\ t_local' = [t_local EXCEPT ![self] = NoStamp]
    /\ UNCHANGED <<is_enabled, num_subscribers, baseVars, clock, m_mutex,
                   sync_method, syncVars, imu_msgs, ncalls, device_time>>
    /\ UNCHANGED extVars

(***************************************************************************)
(* imu_callback_sync                                                       *)
(***************************************************************************)
\* entry of the callback, m_mutex.lock() and the compare-and-set
imu_callback_sync_lock(self, frames, bound) ==
    /\ self \in ImuThreads
    /\ sync_method # NONE
    /\ pc[self] = "idle"
    /\ ncalls < bound
    /\ m_mutex = "free"
    /\ m_mutex' = self
    /\ ncalls' = ncalls + 1
    /\ \E f \in frames : Arrives(self, f)
    /\ compare_exchange_strong(self)
    /\ UNCHANGED <<gateVars, is_enabled, num_subscribers, ros_time_base,
                   camera_time_base, clock, sync_method, syncVars, imu_msgs,
                   t_local, hist>>
    /\ UNCHANGED extVars

\* m_mutex.unlock() and the return of the callback
m_mutex_unlock(self) ==
    /\ m_mutex' = "free"
    /\ pc' = [pc EXCEPT ![self] = "idle"]
    /\ frame' = [frame EXCEPT ![self] = NoFrame]

\* what the properties remember of the samples handed to the policies: their
\* number, the last accelerometer sample and the gyro samples after it
Remember(imu_data) ==
    IF imu_data.m_type = ACCEL
    THEN [hist EXCEPT !.fed = @ + 1, !.lastAccel = imu_data, !.accelSeen = TRUE,
                      !.gyros = <<>>]
    ELSE [hist EXCEPT !.fed = @ + 1, !.gyros = Append(@, imu_data)]

\* a consumer is always assumed
has_subscribers_always == TRUE

\* 0 != _synced_imu_publisher->getNumSubscribers()
has_subscribers == 0 # num_subscribers

\* lines 397-414: the subscriber check and the synchronisation policy, followed
\* by m_mutex.unlock() when there is nothing to publish
imu_callback_sync_fill(self) ==
    /\ self \in ImuThreads
    /\ sync_method # NONE
    /\ pc[self] = "body"
    /\ IF has_subscribers
       THEN LET f == frame[self]
                imu_data == CimuData(f.stream, Vector3d(f.data),
                                     elapsed_camera_ns(f.time),
                                     [d |-> f.time, anch |-> hist.anchored,
                                      seq |-> hist.fed + 1])
            IN  /\ hist' = Remember(imu_data)
                /\ IF sync_method = COPY
                   THEN LET r == FillImuData_Copy(imu_data, accel_data, <<>>) IN
                        /\ accel_data' = r.accel_data
                        /\ imu_history' = imu_history
                        /\ imu_msgs' = [imu_msgs EXCEPT ![self] = r.imu_msgs]
                   ELSE LET r == FillImuData_LinearInterpolation(imu_data, imu_history, <<>>) IN
                        /\ imu_history' = r.imu_history
                        /\ accel_data' = accel_data
                        /\ imu_msgs' = [imu_msgs EXCEPT ![self] = r.imu_msgs]
       ELSE UNCHANGED <<syncVars, imu_msgs, hist>>
    /\ IF imu_msgs'[self] = <<>>
       THEN m_mutex_unlock(self)
       ELSE /\ pc' = [pc EXCEPT ![self] = "publish"]
            /\ UNCHANGED <<m_mutex, frame>>
    /\ UNCHANGED <<gateVars, is_enabled, num_subscribers, baseVars, clock,
                   sync_method, t_local, ncalls, device_time>>
    /\ UNCHANGED extVars

\* one round of the loop of lines 415-424, followed after the last round by
\* m_mutex.unlock(); when Publish throws the exception leaves the callback
\* and m_mutex stays locked
imu_callback_sync_publish(self) ==
    /\ self \in ImuThreads
    /\ pc[self] = "publish"
    /\ imu_msgs[self] # <<>>
    /\ LET m == Head(imu_msgs[self])
           t == ros_time_base + m.stamp
           imu_msg == [stamp |-> t,
                       angular_velocity |-> m.angular_velocity,
                       linear_acceleration |-> m.linear_acceleration,
                       src |-> m.src,
                       id |-> hist.submitted + 1,
                       queued |-> FALSE]
       IN  IF PublishThrows
           THEN /\ UNCHANGED <<gateVars, m_mutex>>
                /\ imu_msgs' = [imu_msgs EXCEPT ![self] = <<>>]
                /\ frame' = [frame EXCEPT ![self] = NoFrame]
                /\ pc' = [pc EXCEPT ![self] = "idle"]
                /\ hist' = [hist EXCEPT !.thrown = TRUE]
           ELSE /\ Publish(imu_msg)
                /\ imu_msgs' = [imu_msgs EXCEPT ![self] = Tail(@)]
                /\ hist' = [hist EXCEPT !.submitted = @ + 1]
                /\ IF Tail(imu_msgs[self]) = <<>>
                   THEN m_mutex_unlock(self)
                   ELSE UNCHANGED <<m_mutex, frame, pc>>
    /\ UNCHANGED <<is_enabled, num_subscribers, baseVars, clock,
                   sync_method, syncVars, t_local, ncalls, device_time>>
    /\ UNCHANGED extVars

(***************************************************************************)
(* imu_callback (sync method NONE) and pose_callback                       *)
(***************************************************************************)
imu_callback_start(self, frames, bound) ==
    /\ self \in ImuThreads
    /\ sync_method = NONE
    /\ pc[self] = "idle"
    /\ ncalls < bound
    /\ ncalls' = ncalls + 1
    /\ \E f \in frames : Arrives(self, f)
    /\ t_local' = [t_local EXCEPT ![self] = NoStamp]
    /\ compare_exchange_strong(self)
    /\ UNCHANGED <<gateVars, is_enabled, num_subscribers, ros_time_base,
                   camera_time_base, clock, m_mutex, sync_method, syncVars,
                   imu_msgs, hist>>
    /\ UNCHANGED extVars

\* lines 444-470; has_sub is _imu_publishers[stream_index]->get_subscription_count() != 0
imu_callback_body(self) ==
    /\ self \in ImuThreads
    /\ sync_method = NONE
    /\ pc[self] = "body"
    /\ LET t == ros_time_base + elapsed_camera_ns(frame[self].time) IN
       \E has_sub \in BOOLEAN :
         t_local' = [t_local EXCEPT ![self] =
                       IF has_sub THEN Stamp("imu", frame[self].time, t) ELSE NoStamp]
    /\ pc' = [pc EXCEPT ![self] = "idle"]
    /\ frame' = [frame EXCEPT ![self] = NoFrame]
    /\ UNCHANGED <<gateVars, is_enabled, num_subscribers, baseVars, clock, m_mutex,
                   sync_method, syncVars, imu_msgs, ncalls, device_time, hist>>
    /\ UNCHANGED extVars

pose_callback_start(self, frames, bound) ==
    /\ self \in PoseThreads
    /\ pc[self] = "idle"
    /\ ncalls < bound
    /\ ncalls' = ncalls + 1
    /\ \E f \in frames : Arrives(self, f)
    /\ t_local' = [t_local EXCEPT ![self] = NoStamp]
    /\ compare_exchange_strong(self)
    /\ UNCHANGED <<gateVars, is_enabled, num_subscribers, ros_time_base,
                   camera_time_base, clock, m_mutex, sync_method, syncVars,
                   imu_msgs, hist>>
    /\ UNCHANGED extVars

\* lines 486-556: the transform and the odometry message carry the stamp t
pose_callback_body(self) ==
    /\ self \in PoseThreads
    /\ pc[self] = "body"
    /\ LET t == ros_time_base + elapsed_camera_ns(frame[self].time) IN
       t_local' = [t_local EXCEPT ![self] = Stamp("pose", frame[self].time, t)]
    /\ pc' = [pc EXCEPT ![self] = "idle"]
    /\ frame' = [frame EXCEPT ![self] = NoFrame]
    /\ UNCHANGED <<gateVars, is_enabled, num_subscribers, baseVars, clock, m_mutex,
                   sync_method, syncVars, imu_msgs, ncalls, device_time, hist>>
    /\ UNCHANGED extVars

\* a consumer of the united IMU topic comes or goes
SubscriptionChange ==
    /\ num_subscribers' = 1 - num_subscribers
    /\ UNCHANGED <<gateVars, is_enabled, baseVars, clock, m_mutex, sync_method,
                   syncVars, pc, frame, imu_msgs, t_local, ncalls, device_time, hist>>
    /\ UNCHANGED extVars

(***************************************************************************)
(* SpecGate: two video sensors and the inertial sensor, for the gate.      *)
(***************************************************************************)
GateThreads == FrameThreads \cup ImuThreads

\* the host clock stands still in SpecGate, and the united topic has a consumer
InitGate == Init /\ sync_method # NONE /\ camera_time_base = 0 /\ num_subscribers = 1

NextGate ==
    \/ \E self \in GateThreads : setBaseTime_ros(self, 0)
    \/ \E self \in GateThreads : setBaseTime_cam(self)
    \/ \E self \in FrameThreads : frame_callback_Pause(self, GateVideoFrames, MaxGateCalls)
    \/ \E self \in FrameThreads : frame_callback_frameset(self, 0)
    \/ \E self \in FrameThreads : frame_callback_video_frame(self)
    \/ \E self \in FrameThreads : frame_callback_Resume(self)
    \/ \E self \in ImuThreads : imu_callback_sync_lock(self, GateImuFrames, MaxGateCalls)
    \/ \E self \in ImuThreads : imu_callback_sync_fill(self)
    \/ \E self \in ImuThreads : imu_callback_sync_publish(self)

SpecGate == InitGate /\ [][NextGate]_vars

(***************************************************************************)
(* SpecGateCalls: the methods of SyncedImuPublisher called in any order,   *)
(* by any caller, with _is_enabled set or not.                              *)
(***************************************************************************)
MaxGateOps == 6

\* the messages handed to Publish
GateMessages == {[stamp |-> n, queued |-> FALSE] : n \in {1, 2}}

\* what a call of a method of the gate leaves alone
gate_call_rest ==
    /\ ncalls < MaxGateOps
    /\ ncalls' = ncalls + 1
    /\ UNCHANGED <<is_enabled, num_subscribers, baseVars, clock, m_mutex, sync_method,
                   syncVars, pc, frame, imu_msgs, t_local, device_time, hist>>
    /\ UNCHANGED extVars

\* Publish(imu_msg) returns
gate_Publish ==
    /\ \E imu_msg \in GateMessages : Publish(imu_msg)
    /\ gate_call_rest

\* Publish(imu_msg) throws at line 28
gate_Publish_throws ==
    /\ PublishThrows
    /\ UNCHANGED gateVars
    /\ gate_call_rest

gate_Pause ==
    /\ Pause
    /\ gate_call_rest

gate_Resume ==
    /\ Resume
    /\ gate_call_rest

InitGateCalls == Init /\ sync_method # NONE /\ camera_time_base = 0 /\ num_subscribers = 1

NextGateCalls ==
    \/ gate_Publish
    \/ gate_Publish_throws
    \/ gate_Pause
    \/ gate_Resume

SpecGateCalls == InitGateCalls /\ [][NextGateCalls]_vars

(***************************************************************************)
(* SpecTime: one video sensor, the inertial sensor and the pose sensor,    *)
(* for the time base.                                                      *)
(***************************************************************************)
TimeThreads == {"f1"} \cup ImuThreads \cup PoseThreads

InitTime == Init /\ is_enabled /\ num_subscribers = 1

NextTime ==
    \/ \E self \in TimeThreads : setBaseTime_ros(self, MaxNow)
    \/ \E self \in TimeThreads : setBaseTime_cam(self)
    \/ frame_callback_Pause("f1", TimeVideoFrames, MaxTimeCalls)
    \/ frame_callback_frameset("f1", MaxNow)
    \/ frame_callback_video_frame("f1")
    \/ frame_callback_Resume("f1")
    \/ \E self \in ImuThreads : imu_callback_sync_lock(self, TimeImuFrames, MaxTimeCalls)
    \/ \E self \in ImuThreads : imu_callback_sync_fill(self)
    \/ \E self \in ImuThreads : imu_callback_sync_publish(self)
    \/ \E self \in ImuThreads : imu_callback_start(self, TimeImuFrames, MaxTimeCalls)
    \/ \E self \in ImuThreads : imu_callback_body(self)
    \/ \E self \in PoseThreads : pose_callback_start(self, TimePoseFrames, MaxTimeCalls)
    \/ \E self \in PoseThreads : pose_callback_body(self)

SpecTime == InitTime /\ [][NextTime]_vars

(***************************************************************************)
(* SpecImu: the inertial stream alone, one frame after the other, with the *)
(* samples drawn from a larger set.                                        *)
(***************************************************************************)
InitImu == Init /\ sync_method # NONE /\ is_enabled /\ camera_time_base = 0

NextImu ==
    \/ \E self \in ImuThreads : setBaseTime_ros(self, MaxNow)
    \/ \E self \in ImuThreads : setBaseTime_cam(self)
    \/ \E self \in ImuThreads : imu_callback_sync_lock(self, ImuFrames, MaxSamples)
    \/ \E self \in ImuThreads : imu_callback_sync_fill(self)
    \/ \E self \in ImuThreads : imu_callback_sync_publish(self)
    \/ SubscriptionChange

SpecImu == InitImu /\ [][NextImu]_vars

(***************************************************************************)
(* SpecSync: the inertial stream alone as in SpecImu, with longer runs of  *)
(* fewer kinds of samples and the host clock standing still.               *)
(***************************************************************************)
MaxSyncSamples == 5
MaxSyncDev == 1

SyncDevTimes == 0..MaxSyncDev
SyncFrames == MotionFrames(GYRO, {<<7, 8, 9>>}, SyncDevTimes)
                \cup MotionFrames(ACCEL, {<<1, 2, 3>>}, SyncDevTimes)

InitSync == Init /\ sync_method # NONE /\ is_enabled /\ camera_time_base = 0

NextSync ==
    \/ \E self \in ImuThreads : setBaseTime_ros(self, 0)
    \/ \E self \in ImuThreads : setBaseTime_cam(self)
    \/ \E self \in ImuThreads : imu_callback_sync_lock(self, SyncFrames, MaxSyncSamples)
    \/ \E self \in ImuThreads : imu_callback_sync_fill(self)
    \/ \E self \in ImuThreads : imu_callback_sync_publish(self)
    \/ SubscriptionChange

SpecSync == InitSync /\ [][NextSync]_vars

(***************************************************************************)
(* SpecFilters: the filter loop of frame_callback, lines 599-607, for every  *)
(* choice of the enabled filters.                                          *)
(***************************************************************************)
\* a frameset arrives and the loop starts at _filters.begin()
filter_loop_begin ==
    /\ filter_it \in {0, Len(filters) + 1}
    /\ frameset' = Frameset(<<>>)
    /\ filter_it' = 1
    /\ UNCHANGED <<filters, notFilterVars>>

\* one round of the loop
filter_loop_step ==
    /\ filter_it \in 1..Len(filters)
    /\ frameset' = (IF filters[filter_it].is_enabled
                    THEN process(filters[filter_it], frameset)
                    ELSE frameset)
    /\ filter_it' = filter_it + 1
    /\ UNCHANGED <<filters, notFilterVars>>

InitSpecFilters ==
    /\ InitNodeIdle
    /\ InitCalib /\ InitLife
    /\ InitPublish /\ InitAlign
    /\ InitNotify /\ InitBaseStream /\ InitTf /\ InitClip
    /\ \E enabled \in [1..Len(setupFilters) -> BOOLEAN] :
         filters = [i \in 1..Len(setupFilters) |-> NamedFilter(setupFilters[i], enabled[i])]
    /\ frameset = Frameset(<<>>)
    /\ filter_it = 0

NextFilters ==
    \/ filter_loop_begin
    \/ filter_loop_step

SpecFilters == InitSpecFilters /\ [][NextFilters]_vars

(***************************************************************************)
(* SpecPublish: the frameset branch of frame_callback after the filters,   *)
(* lines 630-687, publishAlignedDepthToOthers and publishFrame, for one     *)
(* frameset drawn from the framesets of at most MaxFrames frames.          *)
(***************************************************************************)
\* a frame of a frameset; id is its position in the frameset
Frame(type, index, format, points) ==
    [stream_type |-> type, stream_index |-> index, format |-> format,
     points |-> points, id |-> 0]

FrameKinds ==
    {Frame("DEPTH", 0, "Z16", FALSE), Frame("DEPTH", 0, "RGB8", FALSE),
     Frame("COLOR", 0, "RGB8", FALSE), Frame("INFRARED", 1, "Y8", FALSE),
     Frame("INFRARED", 2, "Y8", FALSE), Frame("DEPTH", 0, "XYZ32F", TRUE)}

Framesets ==
    {[i \in 1..Len(kinds) |-> [kinds[i] EXCEPT !.id = i]] :
       kinds \in UNION {[1..n -> FrameKinds] : n \in 0..MaxFrames}}

\* stream_index_pair sip{stream_type, stream_index}
stream_index_pair(f) == <<f.stream_type, f.stream_index>>

Range(seq) == {seq[i] : i \in 1..Len(seq)}

\* the subscription counts a callback can read
SubscriptionCounts == 0..1

\* one round of the loop of lines 633-658 that keeps every frame
dedup_frame_all(f, loc) ==
    [loc EXCEPT !.frames_to_publish = Append(@, f),
                !.is_depth_arrived =
                    @ \/ (align_depth /\ f.stream_type = "DEPTH" /\ f.format = "Z16")]

\* one round of the loop of lines 633-658 on the frame f; loc holds the
\* locals points_in_set, frames_to_publish, is_in_set and is_depth_arrived
dedup_frame(f, loc) ==
    IF f.points
    THEN IF ~loc.points_in_set
         THEN [loc EXCEPT !.points_in_set = TRUE, !.frames_to_publish = Append(@, f)]
         ELSE loc
    ELSE LET kept == IF stream_index_pair(f) \notin Range(loc.is_in_set)
                     THEN [loc EXCEPT !.is_in_set = Append(@, stream_index_pair(f)),
                                      !.frames_to_publish = Append(@, f)]
                     ELSE loc
         IN  IF align_depth /\ f.stream_type = "DEPTH" /\ f.format = "Z16"
             THEN [kept EXCEPT !.is_depth_arrived = TRUE]
             ELSE kept

\* a message on the sink (info, image or points) of a stream, on the plain
\* topics or on the aligned-depth topics
Message(family, sink, stream, t) ==
    [family |-> family, sink |-> sink, stream |-> stream, stamp |-> t]

\* the values _node.now() takes at line 577
HostTimes == {1, 2}

\* publishFrame that publishes the image alone
publishFrame_image_only(stream, family, t, info_n, image_n) ==
    IF info_n # 0 \/ image_n # 0
    THEN <<Message(family, "image", stream, t)>>
    ELSE <<>>

\* the messages publishFrame publishes, in order: info_n and image_n are the
\* counts read at lines 1131-1132
publishFrame(stream, family, t, info_n, image_n) ==
    IF info_n # 0 \/ image_n # 0
    THEN <<Message(family, "info", stream, t), Message(family, "image", stream, t)>>
    ELSE <<>>

\* the test of lines 187-188 that lets every target through
aligned_has_subscribers_always(info_n, image_n) == TRUE

\* the test of lines 187-188
aligned_has_subscribers(info_n, image_n) == info_n # 0 \/ image_n # 0

\* a frameset leaves the filters: lines 630-632
frameset_arrives ==
    /\ pub_pc = "idle"
    /\ \E fs \in Framesets : frameset' = Frameset(fs)
    /\ \E n \in HostTimes : t_frameset' = n
    /\ points_in_set' = FALSE
    /\ frames_to_publish' = <<>>
    /\ is_in_set' = <<>>
    /\ is_depth_arrived' = FALSE
    /\ it' = 1
    /\ pub_pc' = "dedup"
    /\ UNCHANGED <<align_depth, subs_read, last_call, sent, notPublishVars>>

\* one round of the loop of lines 633-658, or its end
frame_callback_dedup ==
    /\ pub_pc = "dedup"
    /\ IF it <= Len(frameset.frames)
       THEN LET r == dedup_frame(frameset.frames[it],
                                 [points_in_set |-> points_in_set,
                                  frames_to_publish |-> frames_to_publish,
                                  is_in_set |-> is_in_set,
                                  is_depth_arrived |-> is_depth_arrived])
            IN  /\ points_in_set' = r.points_in_set
                /\ frames_to_publish' = r.frames_to_publish
                /\ is_in_set' = r.is_in_set
                /\ is_depth_arrived' = r.is_depth_arrived
                /\ it' = it + 1
                /\ pub_pc' = pub_pc
       ELSE /\ it' = 1
            /\ pub_pc' = "publish"
            /\ UNCHANGED <<points_in_set, frames_to_publish, is_in_set, is_depth_arrived>>
    /\ UNCHANGED <<align_depth, t_frameset, subs_read, last_call, sent, frameset,
                   notPublishVars>>

\* one round of the loop of lines 660-681, or its end and the test of line 683
frame_callback_publish ==
    /\ pub_pc = "publish"
    /\ IF it <= Len(frames_to_publish)
       THEN LET f == frames_to_publish[it] IN
            /\ IF f.points
               THEN /\ sent' = Append(sent, Message("plain", "points", stream_index_pair(f),
                                                    t_frameset))
                    /\ last_call' = last_call
               ELSE \E info_n, image_n \in SubscriptionCounts :
                      /\ sent' = sent \o publishFrame(stream_index_pair(f), "plain", t_frameset,
                                                      info_n, image_n)
                      /\ last_call' = [stream |-> stream_index_pair(f), family |-> "plain",
                                       t |-> t_frameset, info |-> info_n, image |-> image_n]
            /\ it' = it + 1
            /\ pub_pc' = pub_pc
       ELSE /\ it' = 1
            /\ pub_pc' = (IF align_depth /\ is_depth_arrived THEN "aligned" ELSE "done")
            /\ UNCHANGED <<sent, last_call>>
    /\ UNCHANGED <<align_depth, t_frameset, points_in_set, frames_to_publish, is_in_set,
                   is_depth_arrived, subs_read, frameset, notPublishVars>>

\* one round of the loop of publishAlignedDepthToOthers up to the call of
\* publishFrame, or the end of the loop
publishAlignedDepthToOthers ==
    /\ pub_pc = "aligned"
    /\ IF it <= Len(frameset.frames)
       THEN LET f == frameset.frames[it] IN
            IF f.stream_type \in {"DEPTH", "CONFIDENCE"} \/ f.stream_index > 1
            THEN /\ it' = it + 1
                 /\ UNCHANGED <<pub_pc, subs_read>>
            ELSE \E info_n, image_n \in SubscriptionCounts :
                   /\ subs_read' = [info |-> info_n, image |-> image_n]
                   /\ IF aligned_has_subscribers(info_n, image_n)
                      THEN pub_pc' = "aligned_publish" /\ it' = it
                      ELSE pub_pc' = pub_pc /\ it' = it + 1
       ELSE /\ pub_pc' = "done"
            /\ UNCHANGED <<it, subs_read>>
    /\ UNCHANGED <<align_depth, t_frameset, points_in_set, frames_to_publish, is_in_set,
                   is_depth_arrived, last_call, sent, frameset, notPublishVars>>

\* lines 190-205: the align filter and publishFrame on the aligned depth frame
publishAlignedDepthToOthers_publishFrame ==
    /\ pub_pc = "aligned_publish"
    /\ LET f == frameset.frames[it] IN
       \E info_n, image_n \in SubscriptionCounts :
         /\ sent' = sent \o publishFrame(stream_index_pair(f), "aligned", t_frameset,
                                         info_n, image_n)
         /\ last_call' = [stream |-> stream_index_pair(f), family |-> "aligned",
                          t |-> t_frameset, info |-> info_n, image |-> image_n]
    /\ it' = it + 1
    /\ pub_pc' = "aligned"
    /\ UNCHANGED <<align_depth, t_frameset, points_in_set, frames_to_publish, is_in_set,
                   is_depth_arrived, subs_read, frameset, notPublishVars>>

InitSpecPublish ==
    /\ InitNodeIdle
    /\ InitCalib /\ InitLife
    /\ InitFilters
    /\ InitNotify /\ InitBaseStream /\ InitTf /\ InitClip
    /\ InitPublish
    /\ align_depth \in BOOLEAN

NextPublish ==
    \/ frameset_arrives
    \/ frame_callback_dedup
    \/ frame_callback_publish
    \/ publishAlignedDepthToOthers
    \/ publishAlignedDepthToOthers_publishFrame

SpecPublish == InitSpecPublish /\ [][NextPublish]_vars

(***************************************************************************)
(* The notification callback installed by setupErrorCallback (SpecNotify). *)
(* A description is the sequence of its words.                             *)
(***************************************************************************)
MaxNotifications == 2

\* rs2_log_severity: debug, info, warn, error, fatal, none
Severities == 0..5
RS2_LOG_SEVERITY_ERROR == 3

error_strings ==
    << <<"RT", "IC2", "Config", "error">>,
       <<"Left", "IC2", "Config", "error">> >>

Descriptions ==
    { <<"RT", "IC2", "Config", "error">>,
      <<"USB", "Left", "IC2", "Config", "error", "detected">>,
      <<"IC2", "Config", "error">>,
      <<"Frames", "didn't", "arrive">>,
      <<>> }

\* std::string::npos
npos == 0

\* std::string::find: the first position where err occurs in str
find(str, err) ==
    LET hits == {p \in 1..(Len(str) + 1) :
                    /\ p + Len(err) - 1 <= Len(str)
                    /\ SubSeq(str, p, p + Len(err) - 1) = err}
    IN  IF hits = {} THEN npos ELSE CHOOSE p \in hits : \A q \in hits : p <= q

\* find_if over error_strings: index of the first that occurs in the
\* description, Len + 1 for end()
find_if_error_string(n) ==
    LET hits == {k \in 1..Len(error_strings) :
                    find(n.description, error_strings[k]) # npos}
    IN  IF hits = {} THEN Len(error_strings) + 1
        ELSE CHOOSE k \in hits : \A j \in hits : k <= j

\* the callback, for one notification
notifications_callback(n) ==
    LET warned == n.severity >= RS2_LOG_SEVERITY_ERROR
        reset == find_if_error_string(n) # Len(error_strings) + 1
    IN  /\ notifications' = Append(notifications,
                                   [severity |-> n.severity,
                                    description |-> n.description,
                                    warned |-> warned, reset |-> reset])
        /\ hardware_resets' = IF reset THEN hardware_resets + 1 ELSE hardware_resets
        /\ UNCHANGED notNotifyVars

notification_arrives ==
    /\ Len(notifications) < MaxNotifications
    /\ \E sev \in Severities, d \in Descriptions :
          notifications_callback([severity |-> sev, description |-> d])

InitSpecNotify ==
    /\ InitNodeIdle
    /\ InitCalib /\ InitLife
    /\ InitFilters /\ InitPublish /\ InitAlign
    /\ InitBaseStream /\ InitTf /\ InitClip
    /\ InitNotify

NextNotify == notification_arrives

SpecNotify == InitSpecNotify /\ [][NextNotify]_vars

(***************************************************************************)
(* SetBaseStream (SpecBase).                                               *)
(***************************************************************************)
MaxProfiles == 3

DEPTH == <<"DEPTH", 0>>
POSE == <<"POSE", 0>>
StreamIdentities == {DEPTH, POSE, <<"COLOR", 0>>, <<"INFRARED", 1>>}

\* pose before depth
base_stream_priority_pose_first == <<POSE, DEPTH>>

base_stream_priority == <<DEPTH, POSE>>

\* base_stream_priority.end()
base_stream_priority_end == Len(base_stream_priority) + 1

\* the stream profiles of the sensors, in the order the two loops visit them
SensorProfiles ==
    UNION {[1..n -> StreamIdentities] : n \in 0..MaxProfiles}

\* the map filled by the two loops: the first profile of each identity stays
RECURSIVE collect_available_profiles(_, _, _)
collect_available_profiles(sips, k, found) ==
    IF k > Len(sips) THEN found
    ELSE IF \E p \in found : p.sip = sips[k]
         THEN collect_available_profiles(sips, k + 1, found)
         ELSE collect_available_profiles(sips, k + 1,
                                         found \cup {[sip |-> sips[k], uid |-> k]})

\* available_profiles.find(sip) != available_profiles.end()
available_profiles_has(sip) == \E p \in available_profiles : p.sip = sip

\* available_profiles[sip], for a key the map holds
available_profiles_at(sip) == CHOOSE p \in available_profiles : p.sip = sip

\* entry, up to the initialisation of the iterator
SetBaseStream_begin ==
    /\ base_pc = "idle"
    /\ \E sips \in SensorProfiles :
          available_profiles' = collect_available_profiles(sips, 1, {})
    /\ base_stream' = 1
    /\ base_pc' = "while"
    /\ UNCHANGED <<base_profile, end_reads, notBaseStreamVars>>

\* one evaluation of the loop condition with the iterator inside the list
SetBaseStream_while ==
    /\ base_pc = "while"
    /\ base_stream # base_stream_priority_end
    /\ IF ~available_profiles_has(base_stream_priority[base_stream])
       THEN base_stream' = base_stream + 1 /\ base_pc' = "while"
       ELSE base_stream' = base_stream /\ base_pc' = "if"
    /\ UNCHANGED <<available_profiles, base_profile, end_reads, notBaseStreamVars>>

\* one evaluation of the loop condition with the iterator at end(): the left
\* operand reads *base_stream, one element past the vector's storage, before
\* the right operand compares the iterator with end(). The read has no
\* defined result: it yields some value, found in the map or not, and the
\* right operand then ends the loop; or the process dies on the read.
SetBaseStream_while_at_end ==
    /\ base_pc = "while"
    /\ base_stream = base_stream_priority_end
    /\ end_reads' = end_reads + 1
    /\ \E read_in_map \in BOOLEAN, dies \in BOOLEAN :
          base_pc' = IF dies THEN "crashed" ELSE "if"
    /\ UNCHANGED <<available_profiles, base_stream, base_profile, notBaseStreamVars>>

\* no candidate was found
SetBaseStream_throw ==
    /\ base_pc = "if"
    /\ base_stream = base_stream_priority_end
    /\ base_pc' = "thrown"
    /\ UNCHANGED <<available_profiles, base_stream, base_profile, end_reads,
                   notBaseStreamVars>>

\* a candidate was found
SetBaseStream_select ==
    /\ base_pc = "if"
    /\ base_stream # base_stream_priority_end
    /\ base_profile' = available_profiles_at(base_stream_priority[base_stream])
    /\ base_pc' = "done"
    /\ UNCHANGED <<available_profiles, base_stream, end_reads, notBaseStreamVars>>

InitSpecBase ==
    /\ InitNodeIdle
    /\ InitCalib /\ InitLife
    /\ InitFilters /\ InitPublish /\ InitAlign
    /\ InitNotify /\ InitTf /\ InitClip
    /\ InitBaseStream

NextBase ==
    \/ SetBaseStream_begin
    \/ SetBaseStream_while
    \/ SetBaseStream_while_at_end
    \/ SetBaseStream_throw
    \/ SetBaseStream_select

SpecBase == InitSpecBase /\ [][NextBase]_vars

(***************************************************************************)
(* The static transforms: publishStaticTransforms, called by the node for  *)
(* the profiles of a sensor, and the thread _tf_t (SpecTf).  rclcpp::ok()  *)
(* is true throughout.                                                     *)
(***************************************************************************)
MaxTfCalls == 2

\* the profiles a call is made for: a colour profile and the first infrared
\* profile
TfProfiles == {[sip |-> <<"COLOR", 0>>, is_video |-> TRUE],
               [sip |-> <<"INFRARED", 1>>, is_video |-> TRUE]}

\* FRAME_ID, OPTICAL_FRAME_ID and ALIGNED_DEPTH_TO_FRAME_ID of a stream
FRAME_ID(sip) == <<"frame", sip>>
OPTICAL_FRAME_ID(sip) == <<"optical", sip>>
ALIGNED_DEPTH_TO_FRAME_ID(sip) == <<"aligned", sip>>

\* the aligned-depth edges are built for every profile
has_aligned_depth_edges_always(profile) == TRUE

\* the test of line 949
has_aligned_depth_edges(profile) ==
    profile.is_video /\ profile.sip[1] # "DEPTH" /\ profile.sip[2] = 1

\* the edges calcAndPublishStaticTransform builds for a profile, as
\* (frame_id, child_frame_id), in the order of its publish_static_tf calls
static_tf_edges(profile) ==
    LET sip == profile.sip
        base_frame_id == FRAME_ID(base_profile.sip)
        both == << <<base_frame_id, FRAME_ID(sip)>>,
                   <<FRAME_ID(sip), OPTICAL_FRAME_ID(sip)>> >>
    IN  IF has_aligned_depth_edges(profile)
        THEN both \o << <<base_frame_id, ALIGNED_DEPTH_TO_FRAME_ID(sip)>>,
                        <<ALIGNED_DEPTH_TO_FRAME_ID(sip), OPTICAL_FRAME_ID(sip)>> >>
        ELSE both

\* publishStaticTransforms, entry: with _publish_tf the first
\* calcAndPublishStaticTransform starts and reads the clock
publishStaticTransforms_begin ==
    /\ tf_builder.pc = "idle"
    /\ tf_builder.calls < MaxTfCalls
    /\ IF tf_builder.publish_tf
       THEN \E profile \in TfProfiles, t \in HostTimes :
               tf_builder' = [tf_builder EXCEPT
                                 !.pc = "push",
                                 !.todo = static_tf_edges(profile),
                                 !.t = t,
                                 !.calls = @ + 1]
       ELSE tf_builder' = [tf_builder EXCEPT !.calls = @ + 1]
    /\ UNCHANGED <<static_tf_msgs, publish_tf_mutex, tf_t, tf_sent, notTfVars>>

\* one call of publish_static_tf: the push_back, made without taking any
\* lock
publish_static_tf ==
    /\ tf_builder.pc = "push"
    /\ tf_builder.todo # <<>>
    /\ static_tf_msgs' = Append(static_tf_msgs,
                                [frame_id |-> Head(tf_builder.todo)[1],
                                 child_frame_id |-> Head(tf_builder.todo)[2],
                                 stamp |-> tf_builder.t])
    /\ tf_builder' = [tf_builder EXCEPT !.todo = Tail(@)]
    /\ UNCHANGED <<publish_tf_mutex, tf_t, tf_sent, notTfVars>>

\* after the loop over the profiles: start the thread, or send once.
\* Assigning _tf_t while it holds a thread that was not joined destroys a
\* joinable std::thread, which calls std::terminate.
publishStaticTransforms_end ==
    /\ tf_builder.pc = "push"
    /\ tf_builder.todo = <<>>
    /\ IF tf_builder.tf_publish_rate > 0
       THEN IF tf_t.pc = "none"
            THEN /\ tf_t' = [tf_t EXCEPT !.pc = "loop"]
                 /\ tf_builder' = [tf_builder EXCEPT !.pc = "idle"]
                 /\ UNCHANGED tf_sent
            ELSE /\ tf_builder' = [tf_builder EXCEPT !.pc = "terminated"]
                 /\ UNCHANGED <<tf_t, tf_sent>>
       ELSE /\ tf_sent' = [by |-> "static", msgs |-> static_tf_msgs]
            /\ tf_builder' = [tf_builder EXCEPT !.pc = "idle"]
            /\ UNCHANGED tf_t
    /\ UNCHANGED <<static_tf_msgs, publish_tf_mutex, notTfVars>>

\* publishDynamicTransforms: rclcpp::ok() holds at line 1013; take the lock,
\* read the clock, start the range-for, whose bounds are taken here
publishDynamicTransforms_lock ==
    /\ tf_builder.pc # "terminated"
    /\ tf_t.pc = "loop"
    /\ rclcpp_ok
    /\ publish_tf_mutex = "free"
    /\ publish_tf_mutex' = "tf_t"
    /\ \E t \in HostTimes :
          tf_t' = [pc |-> "stamp", i |-> 1, n |-> Len(static_tf_msgs), t |-> t]
    /\ UNCHANGED <<static_tf_msgs, tf_builder, tf_sent, notTfVars>>

\* one iteration of the range-for.  If the vector was appended to since the
\* loop began, its iterators may point into storage that push_back released:
\* the stamp is then written to the element, or lost, or the thread dies.
publishDynamicTransforms_stamp ==
    /\ tf_builder.pc # "terminated"
    /\ tf_t.pc = "stamp"
    /\ tf_t.i <= tf_t.n
    /\ \/ /\ static_tf_msgs' = [static_tf_msgs EXCEPT ![tf_t.i].stamp = tf_t.t]
          /\ tf_t' = [tf_t EXCEPT !.i = @ + 1]
       \/ /\ Len(static_tf_msgs) # tf_t.n
          /\ UNCHANGED static_tf_msgs
          /\ \/ tf_t' = [tf_t EXCEPT !.i = @ + 1]
             \/ tf_t' = [tf_t EXCEPT !.pc = "crashed"]
    /\ UNCHANGED <<publish_tf_mutex, tf_builder, tf_sent, notTfVars>>

\* sendTransform and the end of the lock_guard's scope; then the sleep
publishDynamicTransforms_send ==
    /\ tf_builder.pc # "terminated"
    /\ tf_t.pc = "stamp"
    /\ tf_t.i > tf_t.n
    /\ tf_sent' = [by |-> "dynamic", msgs |-> static_tf_msgs]
    /\ publish_tf_mutex' = "free"
    /\ tf_t' = [tf_t EXCEPT !.pc = "loop"]
    /\ UNCHANGED <<static_tf_msgs, tf_builder, notTfVars>>

InitSpecTf ==
    /\ InitNodeIdle
    /\ InitCalib /\ InitLife
    /\ InitFilters /\ InitPublish /\ InitAlign
    /\ InitNotify /\ InitClip
    /\ available_profiles = {[sip |-> DEPTH, uid |-> 1]}
    /\ base_stream = 1
    /\ base_profile = [sip |-> DEPTH, uid |-> 1]
    /\ base_pc = "done"
    /\ end_reads = 0
    /\ static_tf_msgs = <<>>
    /\ publish_tf_mutex = "free"
    /\ \E publish_tf \in BOOLEAN, rate \in {0, 1} :
          tf_builder = [pc |-> "idle", todo |-> <<>>, t |-> 0, calls |-> 0,
                        publish_tf |-> publish_tf, tf_publish_rate |-> rate,
                        last |-> NoTfCall]
    /\ tf_t = [pc |-> "none", i |-> 0, n |-> 0, t |-> 0]
    /\ tf_sent = [by |-> "none", msgs |-> <<>>]

NextTf ==
    \/ publishStaticTransforms_begin
    \/ publish_static_tf
    \/ publishStaticTransforms_end
    \/ publishDynamicTransforms_lock
    \/ publishDynamicTransforms_stamp
    \/ publishDynamicTransforms_send

SpecTf == InitSpecTf /\ [][NextTf]_vars

(***************************************************************************)
(* SpecDestroy: ~BaseRealSenseNode, lines 99-128, while the thread _tf_t  *)
(* runs publishDynamicTransforms.  rclcpp::ok() turns false when a       *)
(* shutdown of the process is requested, which nothing obliges.           *)
(***************************************************************************)
\* the loop of line 1013 ends when rclcpp::ok() is false, and the thread
\* function returns
publishDynamicTransforms_exit ==
    /\ tf_t.pc = "loop"
    /\ ~rclcpp_ok
    /\ tf_t' = [tf_t EXCEPT !.pc = "exited"]
    /\ UNCHANGED <<static_tf_msgs, publish_tf_mutex, tf_builder, tf_sent, lifeVars,
                   notLifeTfVars>>

\* a shutdown of the process is requested: rclcpp::ok() is false from now on
rclcpp_shutdown ==
    /\ rclcpp_ok
    /\ rclcpp_ok' = FALSE
    /\ UNCHANGED <<is_running, destructor, tfVars, notLifeTfVars>>

\* the destructor is entered; with _tf_t set it calls _tf_t->join()
destructor_begin ==
    /\ destructor = "none"
    /\ destructor' = IF tf_t.pc # "none" THEN "join" ELSE "stop"
    /\ UNCHANGED <<is_running, rclcpp_ok, tfVars, notLifeTfVars>>

\* _tf_t->join() returns once the thread function has returned
destructor_join ==
    /\ destructor = "join"
    /\ tf_t.pc = "exited"
    /\ destructor' = "stop"
    /\ UNCHANGED <<is_running, rclcpp_ok, tfVars, notLifeTfVars>>

\* lines 105-127: _is_running = false, the monitoring threads are woken and
\* joined, the sensors are stopped and closed
destructor_stop ==
    /\ destructor = "stop"
    /\ is_running' = FALSE
    /\ destructor' = "done"
    /\ UNCHANGED <<rclcpp_ok, tfVars, notLifeTfVars>>

\* publishStaticTransforms has run with _tf_publish_rate above 0 for one of
\* the profiles: its edges are in _static_tf_msgs and _tf_t is running
InitSpecDestroy ==
    /\ InitNodeIdle
    /\ InitCalib /\ InitLife
    /\ InitFilters /\ InitPublish /\ InitAlign
    /\ InitNotify /\ InitClip
    /\ available_profiles = {[sip |-> DEPTH, uid |-> 1]}
    /\ base_stream = 1
    /\ base_profile = [sip |-> DEPTH, uid |-> 1]
    /\ base_pc = "done"
    /\ end_reads = 0
    /\ \E profile \in TfProfiles :
          static_tf_msgs = [n \in 1..Len(static_tf_edges(profile)) |->
                              [frame_id |-> static_tf_edges(profile)[n][1],
                               child_frame_id |-> static_tf_edges(profile)[n][2],
                               stamp |-> 0]]
    /\ publish_tf_mutex = "free"
    /\ tf_builder = [pc |-> "idle", todo |-> <<>>, t |-> 0, calls |-> 1,
                     publish_tf |-> TRUE, tf_publish_rate |-> 1, last |-> NoTfCall]
    /\ tf_t = [pc |-> "loop", i |-> 0, n |-> 0, t |-> 0]
    /\ tf_sent = [by |-> "none", msgs |-> <<>>]

NextDestroy ==
    \/ publishDynamicTransforms_lock
    \/ publishDynamicTransforms_stamp
    \/ publishDynamicTransforms_send
    \/ publishDynamicTransforms_exit
    \/ rclcpp_shutdown
    \/ destructor_begin
    \/ destructor_join
    \/ destructor_stop

\* the thread _tf_t and the thread running the destructor are scheduled
\* whenever they can take a step
SpecDestroy ==
    /\ InitSpecDestroy
    /\ [][NextDestroy]_vars
    /\ WF_vars(publishDynamicTransforms_lock \/ publishDynamicTransforms_stamp
                 \/ publishDynamicTransforms_send \/ publishDynamicTransforms_exit)
    /\ WF_vars(destructor_join \/ destructor_stop)

(***************************************************************************)
(* clip_depth (SpecClip).  Distances and scales are exact rationals; what  *)
(* float arithmetic and the conversion to uint16_t add is said below.      *)
(***************************************************************************)
MaxPixels == 2

UINT16_MAX == 65535

\* raw depth values, around the thresholds of the pairs below
RawValues == {0, 333, 334, 999, 1000, 1001, 4464, 4465, 65535}

DepthFrames == UNION {[1..n -> RawValues] : n \in 1..MaxPixels}

\* (clipping distance in metres, depth scale in metres per unit)
ClippingSetups ==
    { <<RInt(1), Rat(1, 1000)>>, <<RInt(1), Rat(3, 1000)>>, <<RInt(70), Rat(1, 1000)>> }

RECURSIVE IsPowerOfTwo(_)
IsPowerOfTwo(n) == n = 1 \/ (n > 1 /\ n % 2 = 0 /\ IsPowerOfTwo(n \div 2))

\* the integer part of a non-negative rational
Trunc(x) == x[1] \div x[2]

\* clipping_dist / _depth_scale_meters in floating point, truncated toward
\* zero: the integer part of the exact quotient; or, when the exact quotient
\* is a whole number and the scale has no exact binary representation, also
\* the whole number below it, as the rounded operands may give a quotient
\* just under it (1.0f / 0.001f is 999.99994)
float_quotient_truncated(clipping_dist, scale) ==
    LET q == RDiv(clipping_dist, scale)
    IN  {Trunc(q)} \cup
        (IF q[2] = 1 /\ q[1] >= 1 /\ ~IsPowerOfTwo(scale[2]) THEN {q[1] - 1} ELSE {})

\* static_cast<uint16_t> of a float with integer part n: n when it fits; a
\* value that does not fit has no defined result, the builds in use giving
\* the low 16 bits, the saturated value or 0
static_cast_uint16(n) ==
    IF n <= UINT16_MAX THEN {n}
    ELSE {n % (UINT16_MAX + 1), UINT16_MAX, 0}

\* the loop over the pixels, for a clipping_value
clip_pixels(pixels, clipping_value) ==
    [i \in 1..Len(pixels) |-> IF pixels[i] > clipping_value THEN 0 ELSE pixels[i]]

\* a depth frame arrives with _clipping_distance > 0
depth_frame_arrives ==
    /\ clip_pc = "idle"
    /\ \E pixels \in DepthFrames, setup \in ClippingSetups :
          /\ depth_frame' = pixels
          /\ raw_frame' = pixels
          /\ clipping_distance' = setup[1]
          /\ depth_scale_meters' = setup[2]
    /\ clip_pc' = "clip"
    /\ UNCHANGED <<frame_data, notClipVars>>

clip_depth ==
    /\ clip_pc = "clip"
    /\ \E q \in float_quotient_truncated(clipping_distance, depth_scale_meters) :
          \E clipping_value \in static_cast_uint16(q) :
              depth_frame' = clip_pixels(depth_frame, clipping_value)
    /\ clip_pc' = "done"
    /\ UNCHANGED <<raw_frame, clipping_distance, depth_scale_meters, frame_data,
                   notClipVars>>

InitSpecClip ==
    /\ InitNodeIdle
    /\ InitCalib /\ InitLife
    /\ InitFilters /\ InitPublish /\ InitAlign
    /\ InitNotify /\ InitBaseStream /\ InitTf
    /\ InitClip

NextClip ==
    \/ depth_frame_arrives
    \/ clip_depth

SpecClip == InitSpecClip /\ [][NextClip]_vars

(***************************************************************************)
(* SpecClipPath: where frame_callback clips.  The frameset branch clips at *)
(* lines 592-597 and then runs the filter loop of lines 599-607; the       *)
(* branch of a single video frame clips at lines 699-706.  One call of the *)
(* callback, for every frame, distance and choice of enabled filters.      *)
(***************************************************************************)
MaxPathPixels == 2

\* raw values on both sides of the clipping value 1000
PathValues == {0, 999, 1001}

PathPixels == [1..MaxPathPixels -> PathValues]

\* the streams of the member frames of a frameset, in its order
PathMembers ==
    { << <<"DEPTH", 0>> >>, << <<"COLOR", 0>> >>,
      << <<"DEPTH", 0>>, <<"COLOR", 0>> >>,
      << <<"INFRARED", 1>>, <<"DEPTH", 0>> >>,
      << <<"INFRARED", 1>>, <<"COLOR", 0>> >> }

PathFramesets ==
    UNION { { [i \in 1..Len(members) |-> [stream |-> members[i], pixels |-> px[i]]] :
                 px \in [1..Len(members) -> PathPixels] } : members \in PathMembers }

PathVideoFrames ==
    { << [stream |-> sip, pixels |-> px] >> :
         sip \in { <<"DEPTH", 0>>, <<"COLOR", 0>>, <<"INFRARED", 1>> }, px \in PathPixels }

\* values of the parameter clip_distance, in metres: unset (negative), zero, set
PathDistances == {RInt(-2), RInt(0), RInt(1)}

\* the filters enabled: none, the first and the last, all
PathFilters ==
    { [i \in 1..Len(setupFilters) |-> FALSE],
      [i \in 1..Len(setupFilters) |-> i \in {1, Len(setupFilters)}],
      [i \in 1..Len(setupFilters) |-> TRUE] }

\* frame.is<rs2::depth_frame>()
is_depth_frame(f) == f.stream[1] = "DEPTH"

\* frameset.get_depth_frame(): the position of the first depth frame of the
\* set, 0 for the empty frame it returns when there is none
RECURSIVE get_depth_frame_from(_, _)
get_depth_frame_from(frames, i) ==
    IF i > Len(frames) THEN 0
    ELSE IF is_depth_frame(frames[i]) THEN i
         ELSE get_depth_frame_from(frames, i + 1)

get_depth_frame(frames) == get_depth_frame_from(frames, 1)

\* the test with any _clipping_distance
clips_at_any_distance(is_depth, clipping_dist) == is_depth

\* the test of line 594 and of lines 700-702
clips(is_depth, clipping_dist) == is_depth /\ clipping_dist[1] > 0

\* clip_depth(frame, _clipping_distance) on member i of the frames
clip_depth_of(frames, i, clipping_value) ==
    [frames EXCEPT ![i].pixels = clip_pixels(@, clipping_value)]

\* frame_callback is entered with a frameset or with a single video frame
frame_callback_arrives ==
    /\ clip_pc = "idle"
    /\ \E is_frameset \in BOOLEAN :
          \E frames \in (IF is_frameset THEN PathFramesets ELSE PathVideoFrames) :
              /\ frame_data' = [is_frameset |-> is_frameset, frames |-> frames,
                                arrived |-> frames]
              /\ clip_pc' = IF is_frameset THEN "frameset" ELSE "video"
    /\ frameset' = Frameset(<<>>)
    /\ filter_it' = 0
    /\ UNCHANGED <<filters, depth_frame, raw_frame, clipping_distance,
                   depth_scale_meters, notFilterVars_but_clip>>

\* lines 592-597, up to the start of the filter loop at _filters.begin()
frame_callback_frameset_clip ==
    /\ clip_pc = "frameset"
    /\ LET i == get_depth_frame(frame_data.frames)
       IN  IF clips(i # 0, clipping_distance)
           THEN \E q \in float_quotient_truncated(clipping_distance, depth_scale_meters) :
                   \E clipping_value \in static_cast_uint16(q) :
                       frame_data' = [frame_data EXCEPT
                                         !.frames = clip_depth_of(@, i, clipping_value)]
           ELSE frame_data' = frame_data
    /\ clip_pc' = "filters"
    /\ filter_it' = 1
    /\ UNCHANGED <<filters, frameset, depth_frame, raw_frame, clipping_distance,
                   depth_scale_meters, notFilterVars_but_clip>>

\* the filter loop is over; what follows it is in SpecPublish
frame_callback_filters_done ==
    /\ clip_pc = "filters"
    /\ filter_it = Len(filters) + 1
    /\ clip_pc' = "done"
    /\ UNCHANGED <<filterVars, depth_frame, raw_frame, clipping_distance,
                   depth_scale_meters, frame_data, notFilterVars_but_clip>>

\* lines 699-706, up to the call of publishFrame
frame_callback_video_clip ==
    /\ clip_pc = "video"
    /\ IF clips(is_depth_frame(frame_data.frames[1]), clipping_distance)
       THEN \E q \in float_quotient_truncated(clipping_distance, depth_scale_meters) :
               \E clipping_value \in static_cast_uint16(q) :
                   frame_data' = [frame_data EXCEPT
                                     !.frames = clip_depth_of(@, 1, clipping_value)]
       ELSE frame_data' = frame_data
    /\ clip_pc' = "done"
    /\ UNCHANGED <<filterVars, depth_frame, raw_frame, clipping_distance,
                   depth_scale_meters, notFilterVars_but_clip>>

InitSpecClipPath ==
    /\ InitNodeIdle
    /\ InitCalib /\ InitLife
    /\ InitPublish /\ InitAlign
    /\ InitNotify /\ InitBaseStream /\ InitTf
    /\ \E enabled \in PathFilters :
         filters = [i \in 1..Len(setupFilters) |-> NamedFilter(setupFilters[i], enabled[i])]
    /\ frameset = Frameset(<<>>)
    /\ filter_it = 0
    /\ depth_frame = <<>>
    /\ raw_frame = <<>>
    /\ clipping_distance \in PathDistances
    /\ depth_scale_meters = Rat(1, 1000)
    /\ clip_pc = "idle"
    /\ frame_data = NoFrameData

NextClipPath ==
    \/ frame_callback_arrives
    \/ frame_callback_frameset_clip
    \/ filter_loop_step
    \/ frame_callback_filters_done
    \/ frame_callback_video_clip

SpecClipPath == InitSpecClipPath /\ [][NextClipPath]_vars

(***************************************************************************)
(* The calibration records: updateProfilesStreamCalibData,                 *)
(* updateStreamCalibData and updateExtrinsicsCalibData (SpecCalib).  Of a  *)
(* record the matrices k, p and r are kept, each as the flat array of the  *)
(* message, so that at(i) is element i + 1.                                *)
(***************************************************************************)
MaxFocal == 2

\* rs2_intrinsics of a profile
Intrinsics == {[fx |-> f, fy |-> f + 1, ppx |-> 3, ppy |-> 4] : f \in 1..MaxFocal}

\* the profiles of a sensor, in the order the loop visits them: video
\* profiles and a motion profile
CalibProfiles ==
    << [sip |-> <<"DEPTH", 0>>, is_video |-> TRUE],
       [sip |-> <<"INFRARED", 1>>, is_video |-> TRUE],
       [sip |-> <<"GYRO", 0>>, is_video |-> FALSE],
       [sip |-> <<"INFRARED", 2>>, is_video |-> TRUE] >>

RECURSIVE SelectProfiles(_, _)
SelectProfiles(chosen, k) ==
    IF k > Len(CalibProfiles) THEN <<>>
    ELSE IF k \in chosen THEN <<CalibProfiles[k]>> \o SelectProfiles(chosen, k + 1)
         ELSE SelectProfiles(chosen, k + 1)

\* rs2_extrinsics the device may report: the rotation array and the
\* translation
ExtrinsicsReported ==
    {[rotation |-> r, translation |-> t] :
        r \in { <<1, 0, 0, 0, 1, 0, 0, 0, 1>>,
                <<0, 1, 0, -1, 0, 0, 0, 0, 1>>,
                <<1, 0, 0, 0, 0, 1, 0, -1, 0>> },
        t \in { <<5, 0, 0>>, <<5, 1, 2>> }}

Identity3 == <<1, 0, 0, 0, 1, 0, 0, 0, 1>>

\* the record of a stream after updateStreamCalibData
updateStreamCalibData(info, intrinsic) ==
    LET k == [info.k EXCEPT ![1] = intrinsic.fx, ![3] = intrinsic.ppx,
                            ![5] = intrinsic.fy, ![6] = intrinsic.ppy, ![9] = 1]
        p == <<k[1], 0, k[3], 0,
               0, k[5], k[6], 0,
               0, 0, 1, 0>>
    IN  [k |-> k, p |-> p, r |-> Identity3]

\* element (i, j) of a flat array of rows of n elements
RowMajor(a, n, i, j) == a[n * (i - 1) + j]

\* the records after updateExtrinsicsCalibData, were the left record
\* written as well
updateExtrinsicsCalibData_both(info, left, right, LEFT_T_RIGHT) ==
    [info EXCEPT ![right].r = LEFT_T_RIGHT.rotation,
                 ![left].r = LEFT_T_RIGHT.rotation]

\* the records after updateExtrinsicsCalibData
updateExtrinsicsCalibData(info, left, right, LEFT_T_RIGHT) ==
    LET R(i, j) == RowMajor(LEFT_T_RIGHT.rotation, 3, i, j)
        T == <<LEFT_T_RIGHT.translation[1], 0, 0>>
        RT(i, j) == IF j <= 3 THEN R(i, j) ELSE T[i]
        K_right(i, j) == RowMajor(info[right].k, 3, i, j)
        P_right(i, j) == K_right(i, 1) * RT(1, j) + K_right(i, 2) * RT(2, j)
                           + K_right(i, 3) * RT(3, j)
    IN  [info EXCEPT ![right].r = LEFT_T_RIGHT.rotation,
                     ![right].p = [n \in 1..12 |->
                                      P_right(((n - 1) \div 4) + 1, ((n - 1) % 4) + 1)]]

NoSip == <<"none", 0>>

\* updateProfilesStreamCalibData is called for the profiles of a sensor
updateProfilesStreamCalibData_begin ==
    /\ calib.pc = "idle"
    /\ \E chosen \in SUBSET (1..Len(CalibProfiles)), ex \in ExtrinsicsReported :
          calib' = [pc |-> "loop", profiles |-> SelectProfiles(chosen, 1), i |-> 1,
                    left_profile |-> NoSip, right_profile |-> NoSip,
                    extrinsics |-> ex]
    /\ UNCHANGED <<camera_info, notCalibVars>>

\* one round of the loop over the profiles
updateProfilesStreamCalibData_loop ==
    /\ calib.pc = "loop"
    /\ calib.i <= Len(calib.profiles)
    /\ LET profile == calib.profiles[calib.i] IN
       IF profile.is_video
       THEN /\ \E intrinsic \in Intrinsics :
                  camera_info' = [camera_info EXCEPT
                                     ![profile.sip] = updateStreamCalibData(@, intrinsic)]
            /\ calib' = [calib EXCEPT
                            !.i = @ + 1,
                            !.left_profile = IF profile.sip[2] = 1 THEN profile.sip ELSE @,
                            !.right_profile = IF profile.sip[2] = 2 THEN profile.sip ELSE @]
       ELSE /\ calib' = [calib EXCEPT !.i = @ + 1]
            /\ UNCHANGED camera_info
    /\ UNCHANGED notCalibVars

\* after the loop: updateExtrinsicsCalibData when a left and a right profile
\* were seen
updateProfilesStreamCalibData_end ==
    /\ calib.pc = "loop"
    /\ calib.i > Len(calib.profiles)
    /\ IF calib.left_profile # NoSip /\ calib.right_profile # NoSip
       THEN camera_info' = updateExtrinsicsCalibData(camera_info, calib.left_profile,
                                                     calib.right_profile, calib.extrinsics)
       ELSE UNCHANGED camera_info
    /\ calib' = [calib EXCEPT !.pc = "done"]
    /\ UNCHANGED notCalibVars

InitSpecCalib ==
    /\ InitNode /\ is_enabled /\ num_subscribers = 1 /\ camera_time_base = 0
    /\ sync_method = NONE
    /\ InitFilters /\ InitPublish /\ InitAlign
    /\ InitNotify /\ InitBaseStream /\ InitTf /\ InitClip
    /\ InitCalib /\ InitLife

NextCalib ==
    \/ updateProfilesStreamCalibData_begin
    \/ updateProfilesStreamCalibData_loop
    \/ updateProfilesStreamCalibData_end

SpecCalib == InitSpecCalib /\ [][NextCalib]_vars

(***************************************************************************)
(* The edges of the static transforms and their values (SpecEdges):        *)
(* publishStaticTransforms with each calcAndPublishStaticTransform as one  *)
(* step, nothing else running.  A rotation is kept as its 3x3 matrix, flat *)
(* and by rows, in place of the quaternion of the same rotation.           *)
(***************************************************************************)
MaxTfProfiles == 3

\* the profiles of the enabled streams, in the order of the loop
EdgeProfiles ==
    << [sip |-> <<"DEPTH", 0>>, is_video |-> TRUE],
       [sip |-> <<"COLOR", 0>>, is_video |-> TRUE],
       [sip |-> <<"INFRARED", 1>>, is_video |-> TRUE],
       [sip |-> <<"INFRARED", 2>>, is_video |-> TRUE],
       [sip |-> <<"GYRO", 0>>, is_video |-> FALSE] >>

RECURSIVE SelectEdgeProfiles(_, _)
SelectEdgeProfiles(chosen, k) ==
    IF k > Len(EdgeProfiles) THEN <<>>
    ELSE IF k \in chosen THEN <<EdgeProfiles[k]>> \o SelectEdgeProfiles(chosen, k + 1)
         ELSE SelectEdgeProfiles(chosen, k + 1)

\* what profile.get_extrinsics_to(base_profile) does: returns extrinsics,
\* throws "Requested extrinsics are not available!", or throws something else
ExtrinsicsOutcomes ==
    { [kind |-> "extrinsics",
       ex |-> [rotation |-> <<0, 1, 0, -1, 0, 0, 0, 0, 1>>, translation |-> <<5, 1, 2>>]],
      [kind |-> "not available", ex |-> NoExtrinsics],
      [kind |-> "other error", ex |-> NoExtrinsics] }

\* the product of two 3x3 matrices
Mat3Mul(a, b) ==
    [n \in 1..9 |->
        LET i == ((n - 1) \div 3) + 1
            j == ((n - 1) % 3) + 1
        IN  a[3 * (i - 1) + 1] * b[j] + a[3 * (i - 1) + 2] * b[3 + j]
              + a[3 * (i - 1) + 3] * b[6 + j]]

Transpose3(a) ==
    [n \in 1..9 |-> a[3 * ((n - 1) % 3) + ((n - 1) \div 3) + 1]]

\* setRPY(-M_PI / 2, 0.0, -M_PI / 2)
quaternion_optical == <<0, 0, 1, -1, 0, 0, 0, -1, 0>>

\* the rotation of a column-major array: lines 883-885
rotationMatrixToQuaternion(rotation) == Transpose3(rotation)

\* the message publish_static_tf builds
TransformStamped(t, trans, q, from, to) ==
    [stamp |-> t, frame_id |-> from, child_frame_id |-> to,
     translation |-> <<trans[3], -trans[1], -trans[2]>>,
     rotation |-> q]

\* extrinsics left zeroed, as they would be without the assignment of line 931
ZeroedExtrinsics == [rotation |-> <<0, 0, 0, 0, 0, 0, 0, 0, 0>>, translation |-> <<0, 0, 0>>]

\* rs2_extrinsics({{1, 0, 0, 0, 1, 0, 0, 0, 1}, {0,0,0}})
UnityExtrinsics == [rotation |-> <<1, 0, 0, 0, 1, 0, 0, 0, 1>>, translation |-> <<0, 0, 0>>]

\* calcAndPublishStaticTransform for an outcome of get_extrinsics_to: whether
\* it throws, and the messages it appends to _static_tf_msgs
calcAndPublishStaticTransform(profile, outcome, t) ==
    IF outcome.kind = "other error"
    THEN [thrown |-> TRUE, msgs |-> <<>>]
    ELSE LET ex == IF outcome.kind = "not available" THEN UnityExtrinsics ELSE outcome.ex
             Q == Mat3Mul(Mat3Mul(quaternion_optical,
                                  rotationMatrixToQuaternion(ex.rotation)),
                          Transpose3(quaternion_optical))
             zero_trans == <<0, 0, 0>>
             edges == static_tf_edges(profile)
         IN  [thrown |-> FALSE,
              msgs |-> [n \in 1..Len(edges) |->
                          IF n % 2 = 1
                          THEN TransformStamped(t, ex.translation, Q,
                                                edges[n][1], edges[n][2])
                          ELSE TransformStamped(t, zero_trans, quaternion_optical,
                                                edges[n][1], edges[n][2])]]

\* publishStaticTransforms is called with _publish_tf set, for the profiles
\* of the enabled streams
publishStaticTransforms_called ==
    /\ tf_builder.pc = "idle"
    /\ tf_builder.calls = 0
    /\ \E chosen \in SUBSET (1..Len(EdgeProfiles)) :
          /\ Cardinality(chosen) <= MaxTfProfiles
          /\ tf_builder' = [tf_builder EXCEPT !.pc = "profiles",
                                              !.todo = SelectEdgeProfiles(chosen, 1),
                                              !.t = 1,
                                              !.calls = 1]
    /\ UNCHANGED <<static_tf_msgs, publish_tf_mutex, tf_t, tf_sent, notTfVars>>

\* one round of the loop of lines 991-994: a call of
\* calcAndPublishStaticTransform, whose exception ends publishStaticTransforms
publishStaticTransforms_profile ==
    /\ tf_builder.pc = "profiles"
    /\ tf_builder.todo # <<>>
    /\ \E outcome \in ExtrinsicsOutcomes :
          LET r == calcAndPublishStaticTransform(Head(tf_builder.todo), outcome,
                                                 tf_builder.t)
          IN  /\ static_tf_msgs' = static_tf_msgs \o r.msgs
              /\ tf_builder' = [tf_builder EXCEPT
                                   !.pc = IF r.thrown THEN "thrown" ELSE "profiles",
                                   !.todo = IF r.thrown THEN @ ELSE Tail(@),
                                   !.last = [profile |-> Head(tf_builder.todo),
                                             outcome |-> outcome.kind]]
    /\ UNCHANGED <<publish_tf_mutex, tf_t, tf_sent, notTfVars>>

\* after the loop, with _tf_publish_rate not above 0: the edges are sent once
publishStaticTransforms_send ==
    /\ tf_builder.pc = "profiles"
    /\ tf_builder.todo = <<>>
    /\ tf_sent' = [by |-> "static", msgs |-> static_tf_msgs]
    /\ tf_builder' = [tf_builder EXCEPT !.pc = "idle"]
    /\ UNCHANGED <<static_tf_msgs, publish_tf_mutex, tf_t, notTfVars>>

InitSpecEdges ==
    /\ InitNode /\ is_enabled /\ num_subscribers = 1 /\ camera_time_base = 0
    /\ sync_method = NONE
    /\ InitFilters /\ InitPublish /\ InitAlign
    /\ InitNotify /\ InitClip /\ InitCalib /\ InitLife
    /\ available_profiles = {[sip |-> DEPTH, uid |-> 1]}
    /\ base_stream = 1
    /\ base_profile = [sip |-> DEPTH, uid |-> 1]
    /\ base_pc = "done"
    /\ end_reads = 0
    /\ InitTf

NextEdges ==
    \/ publishStaticTransforms_called
    \/ publishStaticTransforms_profile
    \/ publishStaticTransforms_send

SpecEdges == InitSpecEdges /\ [][NextEdges]_vars

(***************************************************************************)
(* Properties of the gate (SpecGate).                                      *)
(***************************************************************************)
\* C1: the messages delivered downstream followed by the messages still
\* pending are exactly the messages of the Publish calls that returned, in
\* the order of those calls: what was queued while paused is delivered by
\* Resume in submission order, complete, and before anything submitted later.
C1_QueuedDeliveredInOrder ==
    LET all == published \o pending_messages IN
    /\ Len(all) = hist.submitted
    /\ \A i \in 1..Len(all) : all[i].id = i
    /\ \A i \in 1..Len(pending_messages) : pending_messages[i].queued
    /\ Len(pending_messages) <= waiting_list_size

\* two messages queued while paused were flushed by Resume, and a third one,
\* submitted later, was delivered after them
C1_Witness ==
    /\ ~pause_mode
    /\ pending_messages = <<>>
    /\ Len(published) = 3
    /\ published[1].queued /\ published[2].queued /\ ~published[3].queued

\* a step of imu_callback_sync's publish loop
PublishStep(self) == pc[self] = "publish" /\ imu_msgs'[self] # imu_msgs[self]

\* C2: a Publish call made while paused with waiting_list_size messages
\* pending throws, and leaves the pending queue and the delivered messages
\* as they were.
C2_OverflowThrows ==
    [][\A self \in ImuThreads :
         (PublishStep(self) /\ pause_mode
            /\ Len(pending_messages) >= waiting_list_size)
         => /\ hist'.thrown
            /\ pc'[self] = "idle"
            /\ pending_messages' = pending_messages
            /\ published' = published
            /\ hist'.submitted = hist.submitted]_vars

C2_Witness ==
    /\ hist.thrown
    /\ pause_mode
    /\ Len(pending_messages) = waiting_list_size
    /\ \A self \in ImuThreads : pc[self] = "idle"

\* C3: with the gate enabled, a step that delivers a united IMU message
\* downstream is taken only when no frame_callback is between its Pause and
\* its Resume, the callback that is executing its Resume in this very step
\* excepted.
C3_NoDeliveryDuringFrameCallback ==
    [][(is_enabled /\ Len(published') > Len(published))
         => \A t \in FrameThreads : pc[t] # "idle" => pc'[t] = "idle"]_vars

\* C4: a frame_callback whose processing failed is at its Resume, with the
\* exception caught; a frame_callback returns only through Resume, which
\* delivers the pending messages and leaves the gate flowing and empty.
C4_FrameCallbackAlwaysResumes ==
    /\ [](\A t \in FrameThreads : hist.outcome[t] = "failed" => pc[t] = "resume")
    /\ [][\A t \in FrameThreads :
            (pc[t] # "idle" /\ pc'[t] = "idle")
            => /\ pc[t] = "resume"
               /\ ~pause_mode'
               /\ pending_messages' = <<>>
               /\ published' = published \o pending_messages]_vars

\* a callback that failed has resumed the gate, its queue was flushed, and
\* nothing is in flight
C4_Witness ==
    /\ hist.resumed = "failed"
    /\ \A t \in FrameThreads : pc[t] = "idle"
    /\ ~pause_mode
    /\ pending_messages = <<>>
    /\ published # <<>>
    /\ published[Len(published)].queued

(***************************************************************************)
(* Properties of the time base (SpecTime).                                 *)
(***************************************************************************)
\* the stamp st was computed from the anchor
FromAnchor(st) == st.path \in {"video_frame", "imu", "pose"}

\* the united messages handed to the gate: pending or delivered
UnitedMessages ==
    {pending_messages[i] : i \in 1..Len(pending_messages)}
      \cup {published[i] : i \in 1..Len(published)}

\* host_anchor + (d - device_anchor), in nanoseconds
to_host_time(d) == ros_time_base + (d - camera_time_base) * 1000000

\* C5: every callback that computes a stamp from the anchor reads the anchor
\* after the winner of the compare-and-set has written both fields, and so
\* computes its stamp from the winner's pair.
C5_AnchorReadAfterWritten ==
    /\ \A t \in Threads :
         FromAnchor(t_local[t]) =>
           /\ t_local[t].anch
           /\ t_local[t].t = to_host_time(t_local[t].d)
    /\ \A m \in UnitedMessages : m.src.anch

\* C6: setBaseTime runs for at most one callback invocation, and once it has
\* run _ros_time_base and _camera_time_base never change.
C6_AnchorSetOnce ==
    /\ [](hist.setBaseCalls <= 1)
    /\ [](hist.anchored => is_initialized_time_base /\ hist.setBaseCalls = 1)
    /\ [][hist.anchored => UNCHANGED <<ros_time_base, camera_time_base>>]_vars

\* the anchor is set and a second callback, which lost the compare-and-set,
\* has run to its end
C6_Witness ==
    /\ hist.anchored
    /\ hist.setBaseCalls = 1
    /\ ncalls = 2
    /\ \A t \in Threads : pc[t] = "idle"

\* C7 as stated: every stamp put on a message by a callback that read the
\* clock or the anchor after anchoring, the frames of a frameset included, is
\* host_anchor + (d - device_anchor).
C7_EveryStampFromAnchor ==
    /\ \A t \in Threads :
         (t_local[t].path # "none" /\ t_local[t].anch)
           => t_local[t].t = to_host_time(t_local[t].d)
    /\ \A m \in UnitedMessages : m.src.anch => m.stamp = to_host_time(m.src.d)

\* C7 amended: the same for every stamp but those of the frames of a
\* frameset, which carry _node.now().
C7_StampFromAnchorButFrameset ==
    /\ \A t \in Threads :
         (FromAnchor(t_local[t]) /\ t_local[t].anch)
           => t_local[t].t = to_host_time(t_local[t].d)
    /\ \A m \in UnitedMessages : m.src.anch => m.stamp = to_host_time(m.src.d)

\* a single video frame was stamped after anchoring, its device time not the
\* anchor's
C7_Witness ==
    \E t \in FrameThreads :
      /\ t_local[t].path = "video_frame"
      /\ t_local[t].anch
      /\ t_local[t].d # camera_time_base
      /\ t_local[t].t # ros_time_base

(***************************************************************************)
(* Properties of the synchronisation policies (SpecImu).                   *)
(***************************************************************************)
\* a step that hands a sample to the policy
FillStep == hist'.fed = hist.fed + 1
AccelFed == FillStep /\ hist'.gyros = <<>>
GyroFed == FillStep /\ hist'.gyros # <<>>
FedGyro == hist'.gyros[Len(hist'.gyros)]

\* a0 + (a1 - a0) * (tg - t0) / (t1 - t0), for one component
Interpolated(a0, a1, t0, t1, tg) ==
    Rat(a0[1] * (t1 - tg) + a1[1] * (tg - t0), t1 - t0)

\* C8: when an accelerometer sample a1 at t1 follows an accelerometer sample
\* a0 at t0 < t1, every gyro sample received between them at a time tg with
\* t0 <= tg <= t1 gets a united message in that call, with the gyro's time
\* and vector and the accelerometer vector interpolated at tg.
C8_LinearInterpolation ==
    [][(AccelFed /\ sync_method = LINEAR_INTERPOLATION /\ hist.accelSeen
          /\ hist.lastAccel.m_time_ns < hist'.lastAccel.m_time_ns)
       => LET a0 == hist.lastAccel
              a1 == hist'.lastAccel
          IN  \A i \in 1..Len(hist.gyros) :
                LET g == hist.gyros[i] IN
                (a0.m_time_ns <= g.m_time_ns /\ g.m_time_ns <= a1.m_time_ns)
                => \A self \in ImuThreads :
                     \E k \in 1..Len(imu_msgs'[self]) :
                       LET m == imu_msgs'[self][k] IN
                       /\ m.stamp = g.m_time_ns
                       /\ m.angular_velocity = g.m_data
                       /\ \A c \in 1..3 :
                            m.linear_acceleration[c] =
                              Interpolated(a0.m_data[c], a1.m_data[c], a0.m_time_ns,
                                           a1.m_time_ns, g.m_time_ns)]_vars

\* C9: under the copy policy, once an accelerometer sample has been handed to
\* the policy every gyro sample yields exactly one united message, with the
\* gyro's time and vector and the vector of the last accelerometer sample.
C9_CopyAfterAccel ==
    [][(GyroFed /\ sync_method = COPY /\ hist.accelSeen)
       => \A self \in ImuThreads :
            /\ Len(imu_msgs'[self]) = 1
            /\ imu_msgs'[self][1].stamp = FedGyro.m_time_ns
            /\ imu_msgs'[self][1].angular_velocity = FedGyro.m_data
            /\ imu_msgs'[self][1].linear_acceleration = hist.lastAccel.m_data]_vars

\* C10: under the copy policy a gyro sample handed to the policy before any
\* accelerometer sample yields no united message, and an accelerometer
\* sample never yields one.
C10_CopyNothingBeforeAccel ==
    [][(FillStep /\ sync_method = COPY /\ (AccelFed \/ ~hist.accelSeen))
       => \A self \in ImuThreads :
            /\ imu_msgs'[self] = <<>>
            /\ UNCHANGED <<pending_messages, published>>]_vars

\* the united messages made so far and not lost, oldest first
EmittedMessages ==
    published \o pending_messages \o imu_msgs["i1"]

C10_Witness ==
    /\ sync_method = COPY
    /\ hist.fed >= 2
    /\ hist.accelSeen
    /\ hist.gyros = <<>>
    /\ hist.submitted = 0
    /\ published = <<>>
    /\ accel_data = hist.lastAccel
(***************************************************************************)
(* Properties of the filter loop (SpecFilters).                            *)
(***************************************************************************)
\* the registration order of the stages
StageOrder ==
    <<"decimation", "disparity_start", "spatial", "temporal", "hole_filling",
      "disparity_end", "colorizer", "pointcloud">>

StageEnabled(name) == \E i \in 1..Len(filters) : filters[i] = NamedFilter(name, TRUE)

\* the stage a is never applied after the stage b
Precedes(a, b) ==
    \A i, j \in 1..Len(frameset.stages) :
      (frameset.stages[i] = a /\ frameset.stages[j] = b) => i < j

\* C12: after k rounds of the filter loop the frameset went through exactly
\* the enabled ones of the first k stages of the registration order, each
\* once, in that order (a disabled stage changes nothing); so
\* disparity_start precedes spatial and temporal, these precede
\* disparity_end, and disparity_end precedes colorizer and pointcloud.
C12_FiltersInRegistrationOrder ==
    /\ filter_it >= 1 =>
         frameset.stages = SelectSeq(SubSeq(StageOrder, 1, filter_it - 1), StageEnabled)
    /\ \A m \in {"spatial", "temporal"} :
         Precedes("disparity_start", m) /\ Precedes(m, "disparity_end")
    /\ Precedes("disparity_end", "colorizer")
    /\ Precedes("disparity_end", "pointcloud")

\* the loop has ended for a frameset with three stages disabled
C12_Witness ==
    /\ filter_it = Len(filters) + 1
    /\ frameset.stages = <<"disparity_start", "spatial", "disparity_end",
                           "colorizer", "pointcloud">>

(***************************************************************************)
(* Properties of the frameset branch (SpecPublish).                        *)
(***************************************************************************)
\* the frame at position i is the first point-cloud frame of the frameset,
\* or the first frame of its stream identity among the other frames
FirstOfItsKind(i) ==
    LET F == frameset.frames IN
    IF F[i].points
    THEN \A j \in 1..(i - 1) : ~F[j].points
    ELSE \A j \in 1..(i - 1) :
           F[j].points \/ stream_index_pair(F[j]) # stream_index_pair(F[i])

\* the position in frames_to_publish of the frame the message m was made from
PublishedFrom(m) ==
    {k \in 1..Len(frames_to_publish) :
       IF m.sink = "points"
       THEN frames_to_publish[k].points
       ELSE /\ ~frames_to_publish[k].points
            /\ stream_index_pair(frames_to_publish[k]) = m.stream}

AlignedPublished ==
    /\ Len(sent') > Len(sent)
    /\ sent'[Len(sent')].family = "aligned"

\* C14 as stated: the aligned depth frame of a target is computed, and
\* published, only when both the aligned info sink and the aligned image sink
\* of the target were read with a consumer.
C14_AlignedOnlyIfBothSubscribed ==
    /\ [](pub_pc = "aligned_publish" => (subs_read.info # 0 /\ subs_read.image # 0))
    /\ [][AlignedPublished
            => /\ pub_pc = "aligned_publish"
               /\ subs_read.info # 0 /\ subs_read.image # 0
               /\ last_call'.info # 0 /\ last_call'.image # 0]_vars

\* C14 amended: the aligned depth frame of a target is computed only when
\* the aligned info sink or the aligned image sink of the target was read
\* with a consumer at lines 187-188, and published only when one of them was
\* again read with a consumer by publishFrame.
C14_AlignedOnlyIfOneSubscribed ==
    /\ [](pub_pc = "aligned_publish" => (subs_read.info # 0 \/ subs_read.image # 0))
    /\ [][AlignedPublished
            => /\ pub_pc = "aligned_publish"
               /\ subs_read.info # 0 \/ subs_read.image # 0
               /\ last_call'.info # 0 \/ last_call'.image # 0]_vars

\* an aligned depth frame was published for a target whose aligned info sink
\* had no consumer
C14_Witness ==
    /\ sent # <<>>
    /\ sent[Len(sent)].family = "aligned"
    /\ subs_read = [info |-> 0, image |-> 1]
    /\ last_call.family = "aligned"
    /\ last_call.info = 0

\* a step that runs publishFrame, and the frame it is called for
PublishFrameStep ==
    \/ pub_pc = "publish" /\ it <= Len(frames_to_publish) /\ ~frames_to_publish[it].points
    \/ pub_pc = "aligned_publish"
PublishFrameArg ==
    IF pub_pc = "publish" THEN frames_to_publish[it] ELSE frameset.frames[it]

\* C20: a call of publishFrame that reads a consumer on the info sink or on
\* the image sink publishes the calibration record and the image of the
\* frame's stream identity, both with the stamp t; a call that reads none on
\* both publishes nothing.
C20_InfoAndImageTogether ==
    [][PublishFrameStep
       => LET c == last_call'
              new == SubSeq(sent', Len(sent) + 1, Len(sent'))
              topics == IF pub_pc = "publish" THEN "plain" ELSE "aligned"
          IN  /\ c.stream = stream_index_pair(PublishFrameArg)
              /\ sent' = sent \o new
              /\ IF c.info # 0 \/ c.image # 0
                 THEN /\ Len(new) = 2
                      /\ {new[1].sink, new[2].sink} = {"info", "image"}
                      /\ \A k \in 1..2 :
                           /\ new[k].stream = stream_index_pair(PublishFrameArg)
                           /\ new[k].stamp = t_frameset
                           /\ new[k].family = topics
                 ELSE new = <<>>]_vars

\* one frame was published with a consumer on its image sink alone, and
\* another frame, with no consumer on either sink, was not
C20_Witness ==
    /\ pub_pc = "done"
    /\ Len(frames_to_publish) = 2
    /\ Len(sent) = 2
    /\ sent[1].sink = "info" /\ sent[2].sink = "image"
    /\ sent[1].stream = stream_index_pair(frames_to_publish[1])
    /\ last_call.info = 0 /\ last_call.image = 0

(***************************************************************************)
(* Properties of the notification callback (SpecNotify).                   *)
(***************************************************************************)
\* the description contains one of the two vendor error texts
HasVendorErrorText(d) ==
    \E i \in 1..(Len(d) + 1), j \in 0..Len(d) :
        SubSeq(d, i, j) \in { <<"RT", "IC2", "Config", "error">>,
                               <<"Left", "IC2", "Config", "error">> }

\* C15: a hardware reset is initiated for a notification only
\* if its severity is at least error and its description contains one of
\* the vendor error texts; a notification below error never resets.
C15_ResetOnlyForErrorSeverity ==
    /\ \A k \in 1..Len(notifications) :
          notifications[k].reset =>
              /\ notifications[k].severity >= 3
              /\ HasVendorErrorText(notifications[k].description)
    /\ hardware_resets =
          Cardinality({k \in 1..Len(notifications) : notifications[k].reset})

\* what the callback does: the reset follows the description alone, and the
\* severity only decides whether the notification is logged as a warning
ResetFollowsDescriptionAlone ==
    /\ \A k \in 1..Len(notifications) :
          /\ notifications[k].reset = HasVendorErrorText(notifications[k].description)
          /\ notifications[k].warned = (notifications[k].severity >= 3)
    /\ hardware_resets =
          Cardinality({k \in 1..Len(notifications) : notifications[k].reset})

(***************************************************************************)
(* Properties of SetBaseStream (SpecBase).                                 *)
(***************************************************************************)
SetBaseStreamEnded == base_pc \in {"done", "thrown", "crashed"}
AvailableIdentities == {p.sip : p \in available_profiles}

\* C16: with neither a depth nor a pose stream among the available stream
\* identities, SetBaseStream ends by throwing its error, no candidate was
\* read past the end of the priority list on the way, and _base_profile is
\* left unset.
C16_NoBaseStreamFailsCleanly ==
    /\ (base_pc # "idle" /\ AvailableIdentities \cap {<<"DEPTH", 0>>, <<"POSE", 0>>} = {})
          => end_reads = 0 /\ base_pc # "crashed"
    /\ (SetBaseStreamEnded /\ AvailableIdentities \cap {<<"DEPTH", 0>>, <<"POSE", 0>>} = {})
          => base_pc = "thrown" /\ base_profile = [sip |-> <<"none", 0>>, uid |-> 0]

\* C17: when SetBaseStream ends, the base stream is depth if a depth stream
\* is available, else pose if a pose stream is available, and the base
\* profile is a profile of that stream taken from the available ones; the
\* other available streams make no difference.
C17_DepthElsePose ==
    (SetBaseStreamEnded /\ AvailableIdentities \cap {<<"DEPTH", 0>>, <<"POSE", 0>>} # {})
       => /\ base_pc = "done"
          /\ end_reads = 0
          /\ base_profile \in available_profiles
          /\ base_profile.sip = IF <<"DEPTH", 0>> \in AvailableIdentities
                                THEN <<"DEPTH", 0>> ELSE <<"POSE", 0>>

\* depth was chosen although a pose profile and a colour profile were listed
\* before it
C17_Witness ==
    /\ base_pc = "done"
    /\ base_profile = [sip |-> <<"DEPTH", 0>>, uid |-> 3]
    /\ {<<"POSE", 0>>, <<"COLOR", 0>>} \subseteq AvailableIdentities

\* pose was chosen, with a colour stream and no depth stream available
C17_WitnessPose ==
    /\ base_pc = "done"
    /\ base_profile.sip = <<"POSE", 0>>
    /\ <<"COLOR", 0>> \in AvailableIdentities

(***************************************************************************)
(* Properties of the static transforms (SpecTf).                           *)
(***************************************************************************)
\* C18: the builder and the periodic thread exclude each other on
\* _static_tf_msgs: no edge is appended to it in a step taken while the
\* periodic thread holds the mutex and is re-stamping or about to send.
C18_NoAppendWhileRestamping ==
    [][Len(static_tf_msgs') > Len(static_tf_msgs) => publish_tf_mutex # "tf_t"]_vars

(***************************************************************************)
(* Properties of clip_depth (SpecClip).                                    *)
(***************************************************************************)
\* raw * s > D, for a raw value and rationals D and s
ExceedsDistance(raw, D, s) == raw * s[1] * D[2] > D[1] * s[2]

\* C19: after clip_depth with clipping distance D > 0 and depth scale s,
\* the pixels whose raw value exceeds D/s are 0 and every other pixel has
\* its raw value, whatever D/s is.
C19_ClipsExactlyBeyondDistance ==
    clip_pc = "done" =>
        \A i \in 1..Len(raw_frame) :
            depth_frame[i] =
                IF ExceedsDistance(raw_frame[i], clipping_distance, depth_scale_meters)
                THEN 0 ELSE raw_frame[i]

\* the same, for the setups whose quotient fits 16 bits and is not a whole
\* number: there the loop clips exactly beyond the distance
ClipsExactlyWhenQuotientIsPlain ==
    (clip_pc = "done" /\ clipping_distance = <<1, 1>> /\ depth_scale_meters = <<3, 1000>>)
        => \A i \in 1..Len(raw_frame) :
               depth_frame[i] = IF raw_frame[i] > 333 THEN 0 ELSE raw_frame[i]

\* a pixel well inside a clipping distance of 70 m was set to 0
ClippedInsideDistance ==
    /\ clip_pc = "done"
    /\ clipping_distance = <<70, 1>>
    /\ \E i \in 1..Len(raw_frame) : raw_frame[i] = 4465 /\ depth_frame[i] = 0

(***************************************************************************)
(* Properties of the synchronisation policies (SpecSync).                  *)
(***************************************************************************)
\* the step of imu_callback_sync that tests the consumers of the unified sink
SubscriberTestStep == pc["i1"] = "body" /\ pc'["i1"] # "body"

\* C21: an inertial sample handled by imu_callback_sync while the unified
\* sink has no consumer publishes nothing, hands nothing to a policy and
\* leaves the cached accelerometer sample and the history queue unchanged;
\* the callback ends there.
C21_PoliciesOnlyWithConsumer ==
    [][(SubscriberTestStep /\ num_subscribers = 0)
          => /\ published' = published
             /\ pending_messages' = pending_messages
             /\ accel_data' = accel_data
             /\ imu_history' = imu_history
             /\ imu_msgs'["i1"] = <<>>
             /\ pc'["i1"] = "idle"]_vars

\* samples were handled without a consumer after the policy had state: two
\* callbacks ended without feeding a policy, the history is as it was
C21_Witness ==
    /\ pc["i1"] = "idle"
    /\ num_subscribers = 0
    /\ ncalls = hist.fed + 2
    /\ hist.fed = 2
    /\ Len(imu_history) = 2

\* a sample was handed to a policy in this step
PolicyStep == hist'.fed = hist.fed + 1
PolicySample == IF hist'.gyros = <<>> THEN hist'.lastAccel
                ELSE hist'.gyros[Len(hist'.gyros)]

\* C27: under linear interpolation a call for an accelerometer sample that
\* finds two or more samples in the history leaves exactly that sample in
\* the history; every other call appends its sample to the history; nothing
\* else touches the history.
C27_HistorySeed ==
    [][(sync_method = "LINEAR_INTERPOLATION") =>
          IF PolicyStep
          THEN IF PolicySample.m_type = "ACCEL" /\ Len(imu_history) >= 2
               THEN imu_history' = <<PolicySample>>
               ELSE imu_history' = Append(imu_history, PolicySample)
          ELSE imu_history' = imu_history]_vars

\* the third sample drained the history and the fourth was appended to the
\* accelerometer sample left as its seed
C27_Witness ==
    /\ sync_method = "LINEAR_INTERPOLATION"
    /\ hist.fed = 4
    /\ Len(imu_history) = 2
    /\ imu_history[1] = hist.lastAccel
    /\ imu_history[1].m_type = "ACCEL"
    /\ imu_history[2].m_type = "GYRO"

\* C28: under linear interpolation a call whose history, the new sample
\* included, holds fewer than 3 samples yields no reading, a call for a gyro
\* sample yields no reading, and unified readings are published only within
\* callbacks of accelerometer samples.
C28_ReadingsOnlyOnAccel ==
    [][(sync_method = "LINEAR_INTERPOLATION") =>
          /\ (PolicyStep /\ (PolicySample.m_type # "ACCEL" \/ Len(imu_history) + 1 < 3))
                => /\ imu_msgs'["i1"] = <<>>
                   /\ published' = published
                   /\ pending_messages' = pending_messages
          /\ (published' # published \/ pending_messages' # pending_messages)
                => frame["i1"].stream = "ACCEL"]_vars

\* a gyro sample arrived on a history of two samples with an accelerometer
\* sample in front, and nothing was published; an earlier accelerometer
\* sample had produced a reading
C28_Witness ==
    /\ sync_method = "LINEAR_INTERPOLATION"
    /\ pc["i1"] = "idle"
    /\ Len(imu_history) = 3
    /\ imu_history[1].m_type = "ACCEL"
    /\ imu_history[3].m_type = "GYRO"
    /\ hist.fed = 5
    /\ Len(published) = 1

(***************************************************************************)
(* The lock of imu_callback_sync (SpecGate).                               *)
(***************************************************************************)
\* C30: whenever no inertial callback is running, and in particular after
\* one that Publish left with the overflow error, the lock that serialises
\* imu_callback_sync is free, so that the next inertial callback can take it.
C30_LockFreeAfterOverflow ==
    (\A self \in {"i1"} : pc[self] = "idle") => m_mutex = "free"

(***************************************************************************)
(* Properties of the calibration records (SpecCalib).                      *)
(***************************************************************************)
\* updateExtrinsicsCalibData ran in this step
ExtrinsicsStep ==
    /\ calib.pc = "loop" /\ calib'.pc = "done"
    /\ calib.left_profile # <<"none", 0>> /\ calib.right_profile # <<"none", 0>>

\* C22: updateExtrinsicsCalibData changes only the right stream's record,
\* and of it only the rotation and the projection: the left record keeps the
\* identity rotation and the projection written by updateStreamCalibData,
\* and no other record changes.
C22_OnlyRightRecord ==
    [][ExtrinsicsStep =>
          /\ \A sip \in DOMAIN camera_info :
                sip # calib.right_profile => camera_info'[sip] = camera_info[sip]
          /\ camera_info'[calib.right_profile].k = camera_info[calib.right_profile].k
          /\ camera_info'[calib.left_profile].r = <<1, 0, 0, 0, 1, 0, 0, 0, 1>>
          /\ LET k == camera_info[calib.left_profile].k IN
             camera_info'[calib.left_profile].p =
                 <<k[1], 0, k[3], 0, 0, k[5], k[6], 0, 0, 0, 1, 0>>]_vars

\* updateExtrinsicsCalibData has run with a rotation that is not the
\* identity: the right record holds it, the left record holds the identity
C22_Witness ==
    /\ calib.pc = "done"
    /\ calib.left_profile = <<"INFRARED", 1>>
    /\ calib.right_profile = <<"INFRARED", 2>>
    /\ camera_info[<<"INFRARED", 2>>].r = <<0, 1, 0, -1, 0, 0, 0, 0, 1>>
    /\ camera_info[<<"INFRARED", 2>>].p[4] # 0
    /\ camera_info[<<"INFRARED", 1>>].r = <<1, 0, 0, 0, 1, 0, 0, 0, 1>>
    /\ camera_info[<<"DEPTH", 0>>].k[9] = 1

\* the rotation matrix of an rs2_extrinsics, whose array is column-major as
\* lines 880-885 of rotationMatrixToQuaternion read it
ExtrinsicsRotation(ex, i, j) == ex.rotation[3 * (j - 1) + i]

\* K * [R | (Tx, 0, 0)] as a flat array of 12, for the flat array k of K and
\* the extrinsics ex
ProjectionOf(k, ex) ==
    LET RT(i, j) == IF j <= 3 THEN ExtrinsicsRotation(ex, i, j)
                    ELSE IF i = 1 THEN ex.translation[1] ELSE 0
        P(i, j) == k[3 * (i - 1) + 1] * RT(1, j) + k[3 * (i - 1) + 2] * RT(2, j)
                     + k[3 * (i - 1) + 3] * RT(3, j)
    IN  [n \in 1..12 |-> P(((n - 1) \div 4) + 1, ((n - 1) % 4) + 1)]

\* C23: once updateExtrinsicsCalibData has run, the right stream's
\* projection is K_right * [R | (Tx, 0, 0)] for the rotation R and the
\* translation T of the right-to-left extrinsics; for the identity rotation
\* and T = (B, 0, 0) it is K_right with fourth column (fx * B, 0, 0).
C23_RightProjection ==
    (/\ calib.pc = "done"
     /\ calib.left_profile # <<"none", 0>> /\ calib.right_profile # <<"none", 0>>)
        => camera_info[calib.right_profile].p =
              ProjectionOf(camera_info[calib.right_profile].k, calib.extrinsics)

\* the part of C23 on the identity rotation
RightProjectionForIdentity ==
    (/\ calib.pc = "done"
     /\ calib.left_profile # <<"none", 0>> /\ calib.right_profile # <<"none", 0>>
     /\ calib.extrinsics.rotation = <<1, 0, 0, 0, 1, 0, 0, 0, 1>>)
        => LET k == camera_info[calib.right_profile].k
               B == calib.extrinsics.translation[1]
           IN  camera_info[calib.right_profile].p =
                   <<k[1], 0, k[3], k[1] * B, 0, k[5], k[6], 0, 0, 0, 1, 0>>

(***************************************************************************)
(* Properties of the edges of the static transforms (SpecEdges).           *)
(***************************************************************************)
\* a call of calcAndPublishStaticTransform was made in this step, and the
\* edges it added
CalcStep == tf_builder.pc = "profiles" /\ tf_builder.todo # <<>>
AddedEdges == SubSeq(static_tf_msgs', Len(static_tf_msgs) + 1, Len(static_tf_msgs'))
IsPrefix(a, b) == Len(a) <= Len(b) /\ SubSeq(b, 1, Len(a)) = a

\* C24: when the device reports that the extrinsics between the stream and
\* the base are not available, calcAndPublishStaticTransform still adds the
\* stream's edges, those from the base to the stream's frames with the
\* identity rotation and a zero translation; on any other failure of the extrinsics it leaves by the
\* exception and adds no edge.
C24_IdentityFallback ==
    [][CalcStep =>
          /\ IsPrefix(static_tf_msgs, static_tf_msgs')
          /\ tf_builder'.last.outcome = "not available"
                => /\ tf_builder'.pc = "profiles"
                   /\ Len(AddedEdges) >= 2
                   /\ AddedEdges[1].frame_id = <<"frame", base_profile.sip>>
                   /\ AddedEdges[1].child_frame_id =
                         <<"frame", tf_builder'.last.profile.sip>>
                   /\ \A n \in 1..Len(AddedEdges) :
                         AddedEdges[n].child_frame_id[1] \in {"frame", "aligned"}
                            => /\ AddedEdges[n].frame_id = <<"frame", base_profile.sip>>
                               /\ AddedEdges[n].rotation = <<1, 0, 0, 0, 1, 0, 0, 0, 1>>
                               /\ AddedEdges[n].translation = <<0, 0, 0>>
          /\ tf_builder'.last.outcome = "other error"
                => /\ tf_builder'.pc = "thrown"
                   /\ static_tf_msgs' = static_tf_msgs]_vars

\* the extrinsics of the first infrared stream were not available and its
\* four edges are in the edge set; a later call failed otherwise
C24_Witness ==
    /\ tf_builder.pc = "thrown"
    /\ tf_builder.last.outcome = "other error"
    /\ Len(static_tf_msgs) = 4
    /\ static_tf_msgs[1].child_frame_id = <<"frame", <<"INFRARED", 1>>>>
    /\ static_tf_msgs[1].rotation = <<1, 0, 0, 0, 1, 0, 0, 0, 1>>
    /\ static_tf_msgs[3].translation = <<0, 0, 0>>

\* C25: the edges built for the enabled streams form a tree: no frame name
\* is the child of more than one edge.
C25_OneParentPerChild ==
    \A i, j \in 1..Len(static_tf_msgs) :
        static_tf_msgs[i].child_frame_id = static_tf_msgs[j].child_frame_id => i = j

\* C26: a call of calcAndPublishStaticTransform that returns adds the edges
\* base -> stream and stream -> stream-optical, followed, exactly when the
\* stream is a video stream other than depth with index 1, by the edges
\* base -> aligned-depth-to-stream and aligned-depth-to-stream -> optical;
\* it adds nothing else.
C26_TwoOrFourEdges ==
    [][(CalcStep /\ tf_builder'.pc = "profiles") =>
          LET profile == Head(tf_builder.todo)
              sip == profile.sip
              base == <<"frame", base_profile.sip>>
              ids == [n \in 1..Len(AddedEdges) |->
                         <<AddedEdges[n].frame_id, AddedEdges[n].child_frame_id>>]
              two == << <<base, <<"frame", sip>> >>,
                        << <<"frame", sip>>, <<"optical", sip>> >> >>
              more == << <<base, <<"aligned", sip>> >>,
                         << <<"aligned", sip>>, <<"optical", sip>> >> >>
          IN  /\ IsPrefix(static_tf_msgs, static_tf_msgs')
              /\ ids = IF profile.is_video /\ sip[1] # "DEPTH" /\ sip[2] = 1
                       THEN two \o more ELSE two]_vars

\* the depth, the first infrared and the motion stream went through: two,
\* four and two edges
C26_Witness ==
    /\ tf_builder.pc = "profiles"
    /\ tf_builder.todo = <<>>
    /\ Len(static_tf_msgs) = 8
    /\ static_tf_msgs[1].child_frame_id = <<"frame", <<"DEPTH", 0>>>>
    /\ static_tf_msgs[5].child_frame_id = <<"aligned", <<"INFRARED", 1>>>>
    /\ static_tf_msgs[7].child_frame_id = <<"frame", <<"GYRO", 0>>>>

(***************************************************************************)
(* Properties of the place of the clipping (SpecClipPath).                 *)
(***************************************************************************)
\* member i of the frame in hand has other pixels after the step
PixelsChange(i) ==
    /\ i <= Len(frame_data'.frames)
    /\ frame_data'.frames[i].pixels # frame_data.frames[i].pixels

\* C29: frame_callback changes pixels only by clipping: in the frameset branch
\* before the first filter of the loop has run, in both branches only with
\* _clipping_distance above 0 and only in a depth frame, where the changed
\* pixels become 0; with _clipping_distance at or below 0 no pixel changes.
C29_ClipsFirstAndOnlyDepth ==
    [][\A i \in 1..Len(frame_data.frames) :
          (clip_pc # "idle" /\ PixelsChange(i)) =>
              /\ clipping_distance[1] > 0
              /\ is_depth_frame(frame_data.frames[i])
              /\ frameset.stages = <<>>
              /\ filter_it = 0
              /\ frame_data.is_frameset => clip_pc' = "filters" /\ filter_it' = 1
              /\ \A n \in 1..Len(frame_data.frames[i].pixels) :
                    frame_data'.frames[i].pixels[n] \in
                        {0, frame_data.frames[i].pixels[n]}]_vars

\* a frameset of an infrared and a depth frame went through enabled filters:
\* the depth pixel of 1001 was cleared, the infrared one was kept
C29_Witness ==
    /\ clip_pc = "done"
    /\ frame_data.is_frameset
    /\ frameset.stages # <<>>
    /\ Len(frame_data.frames) = 2
    /\ frame_data.arrived[1].stream = <<"INFRARED", 1>>
    /\ frame_data.arrived[1].pixels[1] = 1001
    /\ frame_data.frames[1].pixels[1] = 1001
    /\ frame_data.arrived[2].pixels[1] = 1001
    /\ frame_data.frames[2].pixels[1] = 0

\* a single depth frame was clipped
C29_WitnessVideo ==
    /\ clip_pc = "done"
    /\ ~frame_data.is_frameset
    /\ is_depth_frame(frame_data.arrived[1])
    /\ frame_data.arrived[1].pixels[1] = 1001
    /\ frame_data.frames[1].pixels[1] = 0

(***************************************************************************)
(* Properties of the gate called in any order (SpecGateCalls).             *)
(***************************************************************************)
\* C31: between the calls of Publish, Pause and Resume, in any order, the
\* pending queue holds at most waiting_list_size messages, and it is empty
\* whenever the gate is not paused.
C31_QueueBoundedAndEmptyWhenFlowing ==
    /\ Len(pending_messages) <= waiting_list_size
    /\ ~pause_mode => pending_messages = <<>>

\* the queue was filled to its capacity while paused, and its messages were
\* delivered by a Resume
C31_Witness ==
    /\ ~pause_mode
    /\ pending_messages = <<>>
    /\ Len(published) = waiting_list_size
    /\ \A i \in 1..Len(published) : published[i].queued

(***************************************************************************)
(* Properties of the interpolation policy on every gyro sample (SpecSync). *)
(***************************************************************************)
\* the gyro samples handed to the policy since the last accelerometer sample
\* all have a reading among those the call has made
GyrosAllEmitted ==
    \A i \in 1..Len(hist.gyros) :
        \E k \in 1..Len(imu_msgs'["i1"]) :
            imu_msgs'["i1"][k].src = hist.gyros[i].src

\* C32: under linear interpolation, the call for an accelerometer sample
\* makes a unified reading for every gyro sample handed to the policy since
\* the accelerometer sample before it: none is dropped or kept for later.
C32_EveryGyroEmitted ==
    [][(sync_method = LINEAR_INTERPOLATION /\ AccelFed /\ hist.accelSeen)
          => GyrosAllEmitted]_vars

\* the same for the gyro samples whose time is not before that of the
\* accelerometer sample they follow, all times being accepted by is_set
EveryGyroNotBeforeItsAccelEmitted ==
    [][(sync_method = LINEAR_INTERPOLATION /\ AccelFed /\ hist.accelSeen
          /\ hist.lastAccel.m_time_ns >= 0
          /\ \A i \in 1..Len(hist.gyros) :
                hist.gyros[i].m_time_ns >= hist.lastAccel.m_time_ns)
          => GyrosAllEmitted]_vars

(***************************************************************************)
(* Properties of the interpolation weight (SpecImu).                       *)
(***************************************************************************)
\* x <= y for finite rationals
RLeq(x, y) == x[1] * y[2] <= y[1] * x[2]

\* x lies between a and b, whichever is the larger
RBetween(x, a, b) ==
    /\ IsFinite(x)
    /\ \/ RLeq(a, x) /\ RLeq(x, b)
       \/ RLeq(b, x) /\ RLeq(x, a)

\* the reading m was made with a weight in [0, 1] between the accelerometer
\* samples a0 and a1, whose times differ
WeightInUnitInterval(m, a0, a1) ==
    LET alpha == Rat(m.stamp - a0.m_time_ns, a1.m_time_ns - a0.m_time_ns)
    IN  /\ a1.m_time_ns # a0.m_time_ns
        /\ IsFinite(alpha)
        /\ 0 <= alpha[1] /\ alpha[1] <= alpha[2]
        /\ \A c \in 1..3 :
              RBetween(m.linear_acceleration[c], a0.m_data[c], a1.m_data[c])

\* C33: under linear interpolation every unified reading is made with a
\* weight alpha that is defined, the two accelerometer samples around it
\* having different times, and that lies in [0, 1], so that each component
\* of its accelerometer vector lies between those of the two samples.
C33_AlphaInUnitInterval ==
    [][(sync_method = LINEAR_INTERPOLATION /\ AccelFed /\ hist.accelSeen)
          => \A k \in 1..Len(imu_msgs'["i1"]) :
                WeightInUnitInterval(imu_msgs'["i1"][k], hist.lastAccel,
                                     hist'.lastAccel)]_vars

\* the same when the accelerometer sample is later than the one before it
\* and no gyro sample between them is later than it
WeightInUnitIntervalForOrderedTimes ==
    [][(sync_method = LINEAR_INTERPOLATION /\ AccelFed /\ hist.accelSeen
          /\ hist.lastAccel.m_time_ns >= 0
          /\ hist.lastAccel.m_time_ns < hist'.lastAccel.m_time_ns
          /\ \A i \in 1..Len(hist.gyros) :
                hist.gyros[i].m_time_ns <= hist'.lastAccel.m_time_ns)
          => \A k \in 1..Len(imu_msgs'["i1"]) :
                WeightInUnitInterval(imu_msgs'["i1"][k], hist.lastAccel,
                                     hist'.lastAccel)]_vars

(***************************************************************************)
(* Properties of the destructor (SpecDestroy).                             *)
(***************************************************************************)
\* C34: a destructor entered while the thread _tf_t republishes the static
\* transforms ends: the thread leaves its loop and the join returns, whether
\* or not a shutdown of the process is ever requested.
C34_DestructorEnds == (destructor = "join") ~> (destructor = "done")

\* the destructor ends once a shutdown of the process was requested
DestructorEndsAfterShutdown ==
    (destructor = "join" /\ ~rclcpp_ok) ~> (destructor = "done")

====
